---- MODULE Spec2Model ----
(***************************************************************************)
(* Milo scheduling engine: the assignment optimizer                        *)
(* (python/schedule_optimizer.py) and the slot ownership classifier        *)
(* (python/xgboost_ownership.py).                                          *)
(*                                                                         *)
(* The CP-SAT solver is a black box: a solve returns one of its five       *)
(* statuses, with any optimal schedule (OPTIMAL), any feasible schedule    *)
(* (FEASIBLE) or no schedule at all.                                       *)
(***************************************************************************)
EXTENDS Integers, Sequences, FiniteSets, TLC

VARIABLES
    request,         \* optimizer: the parsed request body read by main()
    result,          \* optimizer: the response object written by main()
    pc,              \* optimizer: "ready" before the handler ran, "done" after
    scorers,         \* optimizer: which scorers were imported and how training went
    slider,          \* fair distribution: min_days, total_blocks, n_drivers, num_dates
    band,            \* fair distribution: the [min, max] computed from slider
    records,         \* ownership: the historical assignment log (training set)
    slot_ownership,  \* ownership: OwnershipClassifier.slot_ownership
    is_fitted,       \* ownership: OwnershipClassifier.is_fitted
    runs,            \* ownership: how often the log was ingested by this classifier
    now,             \* ownership: datetime.now(), in whole weeks
    answer,          \* ownership: what the last query returned
    history,         \* driver statistics and profiles: the driver's history passed in
    stats,           \* driver statistics and profiles: the dict returned for it
    driver_stats_cache,  \* driver statistics: DriverBlockRanker.driver_stats_cache
    invocation,      \* entry points: the script started, its stdin and the model files
    exit,            \* entry points: the exit status and what was printed to stdout
    pair,            \* scorers: the (driver, block) pair being scored and its profile
    score            \* scorers: the ScoreMatrix entry written for it, in thousandths

optimizerVars == <<request, result, pc, scorers>>
bandVars == <<slider, band>>
ownershipVars == <<records, slot_ownership, is_fitted, runs, now, answer>>
statsVars == <<history, stats, driver_stats_cache>>
mainVars == <<invocation, exit>>
scoreVars == <<pair, score>>
vars == <<request, result, pc, scorers, slider, band,
          records, slot_ownership, is_fitted, runs, now, answer,
          history, stats, driver_stats_cache, invocation, exit, pair, score>>

----------------------------------------------------------------------------
(* Each component runs as a process of its own.  A specification of one    *)
(* component holds the variables of the others at their idle values.       *)

NoRequest == [action |-> "none"]
NoResult == [status |-> "none"]
NoBand == <<>>
NoAnswer == [op |-> "none"]
NoStats == [total_days |-> -1]
NoScorers == [forecaster |-> "none", ML_AVAILABLE |-> FALSE]
NoInvocation == [program |-> "none"]
NoExit == [status |-> -1]
NoPair == [scorer |-> "none"]
NoScore == -1

OptimizerIdle ==
    request = NoRequest /\ result = NoResult /\ pc = "idle" /\ scorers = NoScorers
BandIdle == slider = NoRequest /\ band = NoBand
OwnershipIdle ==
    /\ records = <<>>
    /\ slot_ownership = <<>>
    /\ is_fitted = FALSE
    /\ runs = 0
    /\ now = 0
    /\ answer = NoAnswer
StatsIdle == history = <<>> /\ stats = NoStats /\ driver_stats_cache = <<>>
MainIdle == invocation = NoInvocation /\ exit = NoExit
ScoreIdle == pair = NoPair /\ score = NoScore

OptimizerAlone == BandIdle /\ OwnershipIdle /\ StatsIdle /\ MainIdle /\ ScoreIdle
BandAlone == OptimizerIdle /\ OwnershipIdle /\ StatsIdle /\ MainIdle /\ ScoreIdle
OwnershipAlone == OptimizerIdle /\ BandIdle /\ StatsIdle /\ MainIdle /\ ScoreIdle
StatsAlone == OptimizerIdle /\ BandIdle /\ OwnershipIdle /\ MainIdle /\ ScoreIdle
MainAlone == OptimizerIdle /\ BandIdle /\ OwnershipIdle /\ StatsIdle /\ ScoreIdle
ScoreAlone == OptimizerIdle /\ BandIdle /\ OwnershipIdle /\ StatsIdle /\ MainIdle

exceptOptimizer == <<bandVars, ownershipVars, statsVars, mainVars, scoreVars>>
exceptBand == <<optimizerVars, ownershipVars, statsVars, mainVars, scoreVars>>
exceptOwnership == <<optimizerVars, bandVars, statsVars, mainVars, scoreVars>>
exceptStats == <<optimizerVars, bandVars, ownershipVars, mainVars, scoreVars>>
exceptMain == <<optimizerVars, bandVars, ownershipVars, statsVars, scoreVars>>
exceptScore == <<optimizerVars, bandVars, ownershipVars, statsVars, mainVars>>

----------------------------------------------------------------------------
(* Bounds of the model.                                                    *)

MaxDrivers == 2
MaxBlocks == 2

----------------------------------------------------------------------------
(* Helpers.                                                                *)

Max(a, b) == IF a >= b THEN a ELSE b
Min(a, b) == IF a <= b THEN a ELSE b

----------------------------------------------------------------------------
(* Requests.                                                               *)

MIN_HISTORY_FOR_ASSIGNMENT == 1

\* The contract types the optimizer iterates over, in that order.
ContractTypes == <<"solo1", "solo2", "team">>

\* contractType values as they arrive in a request: free-form strings.
\* "Solo2" differs from "solo2" by case only; "flex" is none of the three
\* the optimizer knows.
RawTypes == {"solo1", "Solo2", "flex"}

NoType == "<none>"

\* (x.get("contractType") or "solo1").lower()
NormType(ct) ==
    IF ct = NoType THEN "solo1"
    ELSE IF ct = "Solo2" THEN "solo2"
    ELSE ct

MinDaysValues == {3, 4, 5}

TypeRank(ct) == CASE ct = "solo1" -> 0 [] ct = "Solo2" -> 1 [] OTHER -> 2

\* A driver of the request, with the number of past assignments on record for
\* it: the length of driverHistories[id] when the request carries
\* driverHistories, and what slotHistory counts for it in any case.
DriverRecs == [contractType : RawTypes, history : 0..MIN_HISTORY_FOR_ASSIGNMENT]
DriverRank(r) == TypeRank(r.contractType) * (MIN_HISTORY_FOR_ASSIGNMENT + 1) + r.history

\* The calendar dates of the week being scheduled that blocks are drawn on.
ServiceDates == {"2025-01-05", "2025-01-06"}
DateRank(date) == IF date = "2025-01-05" THEN 0 ELSE 1

\* block["day"]: the weekday name the caller sends with a block, capitalised.
DayNames == {"Sunday", "Monday"}
DayOf(date) == IF date = "2025-01-05" THEN "Sunday" ELSE "Monday"

\* str.lower() on the day names of the model.
Lower(day) ==
    CASE day = "Sunday" -> "sunday"
      [] day = "Monday" -> "monday"
      [] OTHER -> day

BlockRecs == [contractType : RawTypes, serviceDate : ServiceDates]
BlockRank(r) == TypeRank(r.contractType) * Cardinality(ServiceDates) + DateRank(r.serviceDate)

\* The request's lists, indexed by id (ids are unique).  The handlers' results
\* do not depend on the order of the lists, so lists are drawn up to order.
DriverLists ==
    UNION {{ds \in [1..n -> DriverRecs] :
              \A i \in 1..n : \A j \in 1..n :
                  i < j => DriverRank(ds[i]) <= DriverRank(ds[j])} : n \in 0..MaxDrivers}

BlockLists ==
    UNION {{bs \in [1..n -> BlockRecs] :
              \A i \in 1..n : \A j \in 1..n :
                  i < j => BlockRank(bs[i]) <= BlockRank(bs[j])} : n \in 0..MaxBlocks}

\* scoreMatrix[blockId][driverId] of optimize_with_scores, a float 0.0 or 1.0:
\* one driver (star) scores 1.0 on every block, every other driver 0.0;
\* star = 0 is the all-zero matrix.
ScoreMatrices(nD, nB) ==
    {[b \in 1..nB |-> [d \in 1..nD |-> IF d = star THEN 1 ELSE 0]] : star \in 0..nD}

NoScores == <<>>

\* prefs.get("minDays") / prefs.get("maxDays") is None.
NoPref == -1

\* driver_preferences.get(driver_id, {}): a driver without an entry.
NoPrefs == [minDays |-> NoPref, maxDays |-> NoPref, allowedDays |-> {}]

\* How the run's scorers turn out.  forecaster: "unavailable" when the import
\* of DriverAvailabilityForecaster failed, "error" when fit raised,
\* "fit_failed" when fit returned False, "scores" when predict_for_blocks ran.
ForecasterOutcomes == {"unavailable", "error", "fit_failed", "scores"}
ScorerStates == [forecaster : ForecasterOutcomes, ML_AVAILABLE : BOOLEAN]

----------------------------------------------------------------------------
(* The constraint model and the solver.                                    *)

\* Mutant of Candidates: add_at_most_one in place of add_exactly_one.
CandidatesAtMostOne(D, B) ==
    {s \in SUBSET (D \X B) :
        \A p \in s : \A q \in s : p[2] = q[2] => p[1] = q[1]}

\* Mutant of Candidates: add_at_least_one in place of add_exactly_one.
CandidatesAtLeastOne(D, B) ==
    {s \in SUBSET (D \X B) : \A b \in B : \E d \in D : <<d, b>> \in s}

\* A schedule is the set of <<driver, block>> pairs whose variable is 1.
\* Constraint 1: each block is given to exactly one driver.
Candidates(D, B) == {{<<f[b], b>> : b \in B} : f \in [B -> D]}

\* Mutant of AtMostOnePerDate: date_to_blocks keyed by the block, not its date.
AtMostOnePerBlock(s, dateOf) ==
    \A p \in s : \A q \in s :
        (p[1] = q[1] /\ p[2] # q[2]) => p[2] # q[2]

\* Constraint 2: each driver works at most one block per date.
AtMostOnePerDate(s, dateOf) ==
    \A p \in s : \A q \in s :
        (p[1] = q[1] /\ p[2] # q[2]) => dateOf[p[2]] # dateOf[q[2]]

TotalAssigned(s, d) == Cardinality({p \in s : p[1] = d})

\* model.add(total_assigned >= d_min); model.add(total_assigned <= d_max)
WithinBounds(s, D, lo, hi) ==
    \A d \in D : TotalAssigned(s, d) >= lo[d] /\ TotalAssigned(s, d) <= hi[d]

Feasible(D, B, dateOf, lo, hi) ==
    {s \in Candidates(D, B) : AtMostOnePerDate(s, dateOf) /\ WithinBounds(s, D, lo, hi)}

\* sum(preference_score[(d, b)] * assign[(d, b)])
RECURSIVE SumOver(_, _)
SumOver(s, coef) ==
    IF s = {} THEN 0
    ELSE LET p == CHOOSE x \in s : TRUE
         IN  coef[p] + SumOver(s \ {p}, coef)

Decoded == {"OPTIMAL", "FEASIBLE"}

\* What solver.solve(model) may return for the feasible set F and the
\* objective coefficients coef.
Solve(F, coef) ==
    {[status |-> "OPTIMAL", solution |-> s] :
        s \in {s \in F : \A t \in F : SumOver(t, coef) <= SumOver(s, coef)}}
    \cup {[status |-> "FEASIBLE", solution |-> s] : s \in F}
    \cup (IF F = {} THEN {[status |-> "INFEASIBLE", solution |-> {}]} ELSE {})
    \cup {[status |-> "UNKNOWN", solution |-> {}],
          [status |-> "MODEL_INVALID", solution |-> {}]}

----------------------------------------------------------------------------
(* Fair distribution.                                                      *)

BaseMin(nBlocks, nDrivers) == nBlocks \div nDrivers
BaseMax(nBlocks, nDrivers) ==
    BaseMin(nBlocks, nDrivers) + (IF nBlocks % nDrivers # 0 THEN 1 ELSE 0)

\* Mutant of DefaultDriverMin: the floor of the loose settings is 0, not 1.
DefaultDriverMinFloorZero(minDays, nBlocks, nDrivers) ==
    IF minDays = 5 THEN BaseMin(nBlocks, nDrivers)
    ELSE IF minDays = 4 THEN Max(0, BaseMin(nBlocks, nDrivers) - 1)
    ELSE Max(0, BaseMin(nBlocks, nDrivers) - 2)

\* solve_contract_type: the slider's default band.
DefaultDriverMin(minDays, nBlocks, nDrivers) ==
    IF minDays = 5 THEN BaseMin(nBlocks, nDrivers)
    ELSE IF minDays = 4 THEN Max(1, BaseMin(nBlocks, nDrivers) - 1)
    ELSE Max(1, BaseMin(nBlocks, nDrivers) - 2)

\* Mutant of DefaultDriverMax: the loosest value widened by 1, not 2.
DefaultDriverMaxNarrow(minDays, nBlocks, nDrivers, numDates) ==
    IF minDays = 5 THEN BaseMax(nBlocks, nDrivers)
    ELSE Min(numDates, BaseMax(nBlocks, nDrivers) + 1)

DefaultDriverMax(minDays, nBlocks, nDrivers, numDates) ==
    IF minDays = 5 THEN BaseMax(nBlocks, nDrivers)
    ELSE IF minDays = 4 THEN Min(numDates, BaseMax(nBlocks, nDrivers) + 1)
    ELSE Min(numDates, BaseMax(nBlocks, nDrivers) + 2)

\* solve_contract_type: the bounds put on a driver without preferences.
DMin(minDays, nBlocks, nDrivers, numDates) ==
    Max(0, Min(DefaultDriverMin(minDays, nBlocks, nDrivers), numDates))

DMax(minDays, nBlocks, nDrivers, numDates) ==
    Max(DMin(minDays, nBlocks, nDrivers, numDates),
        Min(DefaultDriverMax(minDays, nBlocks, nDrivers, numDates), numDates))

\* Mutant of PrefDMin: the minDays of the preferences is not read.
PrefDMinDefault(prefs, minDays, nBlocks, nDrivers, numDates) ==
    DMin(minDays, nBlocks, nDrivers, numDates)

\* solve_contract_type: the bounds put on a driver, its preferences overriding
\* the slider's defaults, clamped to [0, num_dates] with d_max >= d_min.
PrefDMin(prefs, minDays, nBlocks, nDrivers, numDates) ==
    Max(0, Min(IF prefs.minDays # NoPref THEN prefs.minDays
               ELSE DefaultDriverMin(minDays, nBlocks, nDrivers), numDates))

PrefDMax(prefs, minDays, nBlocks, nDrivers, numDates) ==
    Max(PrefDMin(prefs, minDays, nBlocks, nDrivers, numDates),
        Min(IF prefs.maxDays # NoPref THEN prefs.maxDays
            ELSE DefaultDriverMax(minDays, nBlocks, nDrivers, numDates), numDates))

\* optimize_with_precomputed_scores: the band.
ScoresDriverMin(minDays, nBlocks, nDrivers) ==
    IF minDays >= 5 THEN BaseMin(nBlocks, nDrivers)
    ELSE IF minDays = 4 THEN Max(0, BaseMin(nBlocks, nDrivers) - 1)
    ELSE Max(0, BaseMin(nBlocks, nDrivers) - 2)

ScoresDriverMax(minDays, nBlocks, nDrivers, numDates) ==
    Max(1, IF minDays >= 5 THEN BaseMax(nBlocks, nDrivers)
           ELSE IF minDays = 4 THEN Min(numDates, BaseMax(nBlocks, nDrivers) + 1)
           ELSE Min(numDates, BaseMax(nBlocks, nDrivers) + 2))

----------------------------------------------------------------------------
(* optimize_schedule.                                                      *)

\* Mutant of HistoryCount: without driverHistories the record is still counted.
HistoryCountOnRecord(req, d) == req.drivers[d].history

\* driver_histories = driver_histories or {};
\* history_count = len(driver_histories.get(driver_id, []))
HistoryCount(req, d) ==
    IF req.driverHistories = "omitted" THEN 0 ELSE req.drivers[d].history

\* FILTER DRIVERS BY HISTORY: the ids of the drivers kept.
EligibleDrivers(req) ==
    {d \in DOMAIN req.drivers : HistoryCount(req, d) >= MIN_HISTORY_FOR_ASSIGNMENT}

DriversByCT(req, ct) ==
    {d \in EligibleDrivers(req) : NormType(req.drivers[d].contractType) = ct}

BlocksByCT(req, ct) ==
    {b \in DOMAIN req.blocks : NormType(req.blocks[b].contractType) = ct}

DateOf(req) == [b \in DOMAIN req.blocks |-> req.blocks[b].serviceDate]

NumDates(req, B) == Cardinality({req.blocks[b].serviceDate : b \in B})

\* predict_for_blocks and predict_fit_scores are called with the kept drivers
\* and all blocks of the request, and score every pair of them.
ScoreKeys(req) == EligibleDrivers(req) \X DOMAIN req.blocks

\* Mutant of XgboostScores: only the pairs of the first block are scored.
XgboostScoresFirstBlock(req, sc) ==
    IF req.driverHistories = "given" /\ sc.forecaster = "scores"
    THEN {p \in ScoreKeys(req) : p[2] = 1}
    ELSE {}

\* xgboost_scores: filled when driver_histories is not empty, the forecaster
\* was imported and fit returned True.
XgboostScores(req, sc) ==
    IF req.driverHistories = "given" /\ sc.forecaster = "scores"
    THEN ScoreKeys(req)
    ELSE {}

\* scoring_method after the cascade.
ScoringMethod(req, sc) ==
    IF req.driverHistories # "given" THEN "raw_history"
    ELSE IF XgboostScores(req, sc) # {} THEN "xgboost"
    ELSE IF sc.ML_AVAILABLE THEN "kmeans"
    ELSE "raw_history"

\* ml_scores: filled when the cascade reached the pattern analyzer.
MlScores(req, sc) ==
    IF ScoringMethod(req, sc) = "kmeans" THEN ScoreKeys(req) ELSE {}

\* preference_score[(d, b)]: the scorer the coefficient of a pair is read from.
CoefficientSource(req, sc, p) ==
    IF ScoringMethod(req, sc) = "xgboost" /\ p \in XgboostScores(req, sc) THEN "xgboost"
    ELSE IF ScoringMethod(req, sc) = "kmeans" /\ p \in MlScores(req, sc) THEN "kmeans"
    ELSE "raw_history"

CoefficientSources(req, sc, D, B) == {CoefficientSource(req, sc, p) : p \in D \X B}

\* The objective coefficients of optimize come from the scoring cascade, whose
\* scorers are black boxes here: any coefficients may arrive, and with equal
\* coefficients every feasible schedule is optimal.
AnyObjective(D, B) == [p \in D \X B |-> 0]

\* Mutant of AllowedDays: the allowedDays of the preferences are not read.
AllowedDaysIgnored(req, s) == TRUE

\* For each day not in allowed_days_lower: model.add(assign[(d, b)] == 0) for
\* the blocks of that day; an empty or missing allowedDays restricts nothing.
AllowedDays(req, s) ==
    \A p \in s :
        LET allowed_days == req.driverPreferences[p[1]].allowedDays
        IN  allowed_days = {}
            \/ Lower(req.blocks[p[2]].day) \in {Lower(day) : day \in allowed_days}

\* solve_contract_type up to solver.solve: the outcomes of the solve.
SolveContractType(req, D, B) ==
    LET nd == NumDates(req, B)
        lo == [d \in D |-> PrefDMin(req.driverPreferences[d], req.minDays,
                                    Cardinality(B), Cardinality(D), nd)]
        hi == [d \in D |-> PrefDMax(req.driverPreferences[d], req.minDays,
                                    Cardinality(B), Cardinality(D), nd)]
    IN  Solve({s \in Feasible(D, B, DateOf(req), lo, hi) : AllowedDays(req, s)},
              AnyObjective(D, B))

\* Mutant of Extract: assignments are emitted whatever the status.
ExtractAnyStatus(req, o, method) ==
    IF o.status \in Decoded
    THEN {[blockId |-> p[2], driverId |-> p[1],
           serviceDate |-> req.blocks[p[2]].serviceDate,
           contractType |-> req.blocks[p[2]].contractType,
           day |-> req.blocks[p[2]].day,
           scoringMethod |-> method] : p \in o.solution}
    ELSE {[blockId |-> b, driverId |-> 1,
           serviceDate |-> req.blocks[b].serviceDate,
           contractType |-> req.blocks[b].contractType,
           day |-> req.blocks[b].day,
           scoringMethod |-> method] : b \in DOMAIN req.blocks}

\* EXTRACT RESULTS: one assignment per variable that is 1, and only for the
\* decoded statuses.
Extract(req, o, method) ==
    IF o.status \in Decoded
    THEN {[blockId |-> p[2], driverId |-> p[1],
           serviceDate |-> req.blocks[p[2]].serviceDate,
           contractType |-> req.blocks[p[2]].contractType,
           day |-> req.blocks[p[2]].day,
           scoringMethod |-> method] : p \in o.solution}
    ELSE {}

Unassigned(B, assignments) == {b \in B : \A a \in assignments : a.blockId # b}

\* Mutant of PartitionResults: a partition without drivers reports nothing.
PartitionResultsDropping(req, sc, ct) ==
    LET D == DriversByCT(req, ct)
        B == BlocksByCT(req, ct)
        method == ScoringMethod(req, sc)
    IN  IF B = {} \/ D = {}
        THEN {[ct |-> ct, solved |-> FALSE, assignments |-> {}, unassigned |-> {},
               status |-> "-", sources |-> {}]}
        ELSE {[ct |-> ct, solved |-> TRUE, assignments |-> Extract(req, o, method),
               unassigned |-> Unassigned(B, Extract(req, o, method)),
               status |-> o.status,
               sources |-> CoefficientSources(req, sc, D, B)] :
                  o \in SolveContractType(req, D, B)}

\* One iteration of the loop over the contract types.
PartitionResults(req, sc, ct) ==
    LET D == DriversByCT(req, ct)
        B == BlocksByCT(req, ct)
        method == ScoringMethod(req, sc)
    IN  IF B = {}
        THEN {[ct |-> ct, solved |-> FALSE, assignments |-> {}, unassigned |-> {},
               status |-> "-", sources |-> {}]}
        ELSE IF D = {}
        THEN {[ct |-> ct, solved |-> FALSE, assignments |-> {}, unassigned |-> B,
               status |-> "-", sources |-> {}]}
        ELSE {[ct |-> ct, solved |-> TRUE, assignments |-> Extract(req, o, method),
               unassigned |-> Unassigned(B, Extract(req, o, method)),
               status |-> o.status,
               sources |-> CoefficientSources(req, sc, D, B)] :
                  o \in SolveContractType(req, D, B)}

\* The solves of a run as its stderr log shows them: "=== Solving <unit>"
\* followed by "Solver status: <status>", in the order they were made, each
\* with the scorers its objective coefficients were read from.
RECURSIVE SolveLog(_, _)
SolveLog(rs, i) ==
    IF i > Len(rs) THEN <<>>
    ELSE (IF rs[i].solved
          THEN <<[unit |-> rs[i].ct, status |-> rs[i].status, sources |-> rs[i].sources]>>
          ELSE <<>>) \o SolveLog(rs, i + 1)

\* solver_status = status, overwritten by every partition that is solved.
RECURSIVE LastStatus(_, _)
LastStatus(rs, i) ==
    IF i = 0 THEN "UNKNOWN"
    ELSE IF rs[i].solved THEN rs[i].status
    ELSE LastStatus(rs, i - 1)

\* The response object, with what the run wrote to stderr beside it:
\* scoringMethod ("Using scoring method: ...") and log.
Response(assignments, unassigned, nBlocks, nDrivers, status, log, method) ==
    [assignments |-> assignments,
     unassigned |-> unassigned,
     log |-> log,
     scoringMethod |-> method,
     stats |-> [totalBlocks |-> nBlocks, totalDrivers |-> nDrivers,
                assigned |-> Cardinality(assignments),
                unassigned |-> Cardinality(unassigned),
                solverStatus |-> status]]

OptimizeSchedule(req, sc) ==
    IF DOMAIN req.blocks = {}
    THEN {Response({}, {}, 0, Cardinality(EligibleDrivers(req)), "NO_BLOCKS", <<>>,
                   ScoringMethod(req, sc))}
    ELSE {Response(rs[1].assignments \cup rs[2].assignments \cup rs[3].assignments,
                   rs[1].unassigned \cup rs[2].unassigned \cup rs[3].unassigned,
                   Len(req.blocks), Cardinality(EligibleDrivers(req)),
                   LastStatus(rs, 3), SolveLog(rs, 1), ScoringMethod(req, sc)) :
             rs \in PartitionResults(req, sc, ContractTypes[1])
                    \X PartitionResults(req, sc, ContractTypes[2])
                    \X PartitionResults(req, sc, ContractTypes[3])}

Optimize ==
    /\ pc = "ready"
    /\ request.action = "optimize"
    /\ result' \in OptimizeSchedule(request, scorers)
    /\ pc' = "done"
    /\ UNCHANGED <<request, scorers, exceptOptimizer>>

----------------------------------------------------------------------------
(* optimize_with_precomputed_scores.                                       *)

\* Mutant of PipelineScore: the matrix read as {driverId: {blockId: score}}.
PipelineScoreTransposed(req, d, b) ==
    IF d \in DOMAIN req.scoreMatrix
    THEN IF b \in DOMAIN req.scoreMatrix[d] THEN req.scoreMatrix[d][b] ELSE 0
    ELSE 0

\* score_matrix.get(block_id, {}).get(driver_id, 0.0)
PipelineScore(req, d, b) ==
    IF b \in DOMAIN req.scoreMatrix
    THEN IF d \in DOMAIN req.scoreMatrix[b] THEN req.scoreMatrix[b][d] ELSE 0
    ELSE 0

\* int(score * 1000)
PreferenceScore(req, D, B) == [p \in D \X B |-> PipelineScore(req, p[1], p[2]) * 1000]

\* The schedules that satisfy the constraints the handler adds to the model.
ScoresFeasible(req, D, B) ==
    LET nd == NumDates(req, B)
        lo == [d \in D |-> ScoresDriverMin(req.minDays, Cardinality(B), Cardinality(D))]
        hi == [d \in D |-> ScoresDriverMax(req.minDays, Cardinality(B), Cardinality(D), nd)]
    IN  Feasible(D, B, DateOf(req), lo, hi)

SolveWithScores(req, D, B) ==
    Solve(ScoresFeasible(req, D, B), PreferenceScore(req, D, B))

OptimizeWithPrecomputedScores(req) ==
    LET D == DOMAIN req.drivers
        B == DOMAIN req.blocks
    IN  IF B = {} \/ D = {}
        THEN {Response({}, B, Len(req.blocks), Len(req.drivers), "NO_INPUT", <<>>,
                       "pipeline")}
        ELSE {Response(Extract(req, o, "pipeline"),
                       Unassigned(B, Extract(req, o, "pipeline")),
                       Len(req.blocks), Len(req.drivers), o.status,
                       <<[unit |-> "all", status |-> o.status,
                          sources |-> {"pipeline"}]>>, "pipeline") :
                 o \in SolveWithScores(req, D, B)}

OptimizeWithScores ==
    /\ pc = "ready"
    /\ request.action = "optimize_with_scores"
    /\ result' \in OptimizeWithPrecomputedScores(request)
    /\ pc' = "done"
    /\ UNCHANGED <<request, scorers, exceptOptimizer>>

----------------------------------------------------------------------------------------------------------------------------------------
(* The optimizer process: one request, one response.                       *)

\* The blocks of a request, each with the weekday name of its service date.
WithDays(bs) == [b \in DOMAIN bs |-> [contractType |-> bs[b].contractType,
                                      serviceDate |-> bs[b].serviceDate,
                                      day |-> DayOf(bs[b].serviceDate)]]

\* driverHistories is "omitted" when the request has none (or an empty one),
\* whatever is on record for its drivers.
HistoriesOptions(ds) == {"given", "omitted"}

\* Requests without driverPreferences, served where neither of the optional
\* scorers could be imported.
Init ==
    /\ \E a \in {"optimize", "optimize_with_scores"} :
       \E ds \in DriverLists : \E bs \in BlockLists : \E m \in MinDaysValues :
       \E sm \in (IF a = "optimize" THEN {NoScores} ELSE ScoreMatrices(Len(ds), Len(bs))) :
       \E h \in (IF a = "optimize" THEN HistoriesOptions(ds) ELSE {"given"}) :
           request = [action |-> a, drivers |-> ds, blocks |-> WithDays(bs),
                      minDays |-> m, scoreMatrix |-> sm, driverHistories |-> h,
                      driverPreferences |-> [d \in DOMAIN ds |-> NoPrefs]]
    /\ scorers = [forecaster |-> "unavailable", ML_AVAILABLE |-> FALSE]
    /\ result = NoResult
    /\ pc = "ready"
    /\ OptimizerAlone

Next == Optimize \/ OptimizeWithScores

Spec == Init /\ [][Next]_vars

----------------------------------------------------------------------------
(* Properties of the optimizer's response.                                 *)

Done == pc = "done"

DriverOf(a) == request.drivers[a.driverId]

\* C1: in every response, the number of assignments plus the number of
\* unassigned block ids equals the number of blocks of the request.
C1_CountsAddUp ==
    Done => result.stats.assigned + result.stats.unassigned = Len(request.blocks)

\* C2: in every response, no driver has two assignments whose blocks share a
\* service date.
C2_OneBlockPerDriverPerDate ==
    Done => \A a1 \in result.assignments : \A a2 \in result.assignments :
                (a1.driverId = a2.driverId /\ a1.blockId # a2.blockId)
                    => a1.serviceDate # a2.serviceDate

\* C2 witness: two blocks of one date were both assigned, to two drivers.
C2_Witness ==
    /\ Done
    /\ \E a1 \in result.assignments : \E a2 \in result.assignments :
          /\ a1.blockId # a2.blockId
          /\ a1.serviceDate = a2.serviceDate
          /\ a1.driverId # a2.driverId

\* C3: in every response, every assignment pairs a driver and a block of the
\* same contract type.
C3_SameContractType ==
    Done => \A a \in result.assignments :
                NormType(DriverOf(a).contractType) = NormType(a.contractType)

\* C4: in every response, no assignment names a driver with zero historical
\* records.
C4_ZeroHistoryNeverAssigned ==
    Done => \A a \in result.assignments : DriverOf(a).history > 0

\* C5: in every response, a block id appears in at most one assignment, and
\* never both in assignments and in unassigned.
C5_BlockAtMostOnce ==
    Done => /\ \A a1 \in result.assignments : \A a2 \in result.assignments :
                   a1.blockId = a2.blockId => a1 = a2
            /\ \A a \in result.assignments : a.blockId \notin result.unassigned

\* C5 witness: a response with one block assigned and another unassigned.
C5_Witness ==
    /\ Done
    /\ result.assignments # {}
    /\ result.unassigned # {}

\* The driver that alone scores 1.0 (on every block) in the score matrix.
IsStar(req, star) ==
    /\ star \in DOMAIN req.drivers
    /\ \A b \in DOMAIN req.blocks : \A d \in DOMAIN req.drivers :
          req.scoreMatrix[b][d] = (IF d = star THEN 1 ELSE 0)

BlocksGiven(d) == Cardinality({a \in result.assignments : a.driverId = d})

\* C7: optimize_with_scores, one driver scoring 1.0 everywhere and the others
\* 0.0, solve OPTIMAL: no schedule that satisfies the constraints gives that
\* driver more blocks than the response does.
C7_StarDriverGetsMost ==
    (Done /\ request.action = "optimize_with_scores"
          /\ result.stats.solverStatus = "OPTIMAL")
        => \A star \in DOMAIN request.drivers :
               IsStar(request, star) =>
                   \A t \in ScoresFeasible(request, DOMAIN request.drivers,
                                           DOMAIN request.blocks) :
                       TotalAssigned(t, star) <= BlocksGiven(star)

\* C7 witness: an OPTIMAL response for two drivers where the star driver got a
\* block although some feasible schedule gives the star driver less.
C7_Witness ==
    /\ Done
    /\ request.action = "optimize_with_scores"
    /\ result.stats.solverStatus = "OPTIMAL"
    /\ \E star \in DOMAIN request.drivers :
          /\ IsStar(request, star)
          /\ BlocksGiven(star) >= 1
          /\ Len(request.drivers) >= 2
          /\ \E t \in ScoresFeasible(request, DOMAIN request.drivers,
                                     DOMAIN request.blocks) :
                TotalAssigned(t, star) < BlocksGiven(star)

----------------------------------------------------------------------------
(* Fair distribution as a function of the slider: the band each handler    *)
(* computes for a partition of total_blocks blocks on num_dates distinct   *)
(* dates and n_drivers drivers without preferences.                        *)

MaxBandBlocks == 20
MaxBandDrivers == 4
MaxBandDates == 7

Sliders ==
    {s \in [min_days : MinDaysValues, total_blocks : 1..MaxBandBlocks,
            n_drivers : 1..MaxBandDrivers, num_dates : 1..MaxBandDates] :
        s.num_dates <= s.total_blocks}

InitBand ==
    /\ slider \in Sliders
    /\ band = NoBand
    /\ BandAlone

\* solve_contract_type, "FAIR DISTRIBUTION"
DefaultDistribution ==
    /\ band = NoBand
    /\ band' = [handler |-> "optimize",
                min |-> DMin(slider.min_days, slider.total_blocks,
                             slider.n_drivers, slider.num_dates),
                max |-> DMax(slider.min_days, slider.total_blocks,
                             slider.n_drivers, slider.num_dates)]
    /\ UNCHANGED <<slider, exceptBand>>

\* optimize_with_precomputed_scores, "Constraint 3"
ScoresDistribution ==
    /\ band = NoBand
    /\ band' = [handler |-> "optimize_with_scores",
                min |-> ScoresDriverMin(slider.min_days, slider.total_blocks,
                                        slider.n_drivers),
                max |-> ScoresDriverMax(slider.min_days, slider.total_blocks,
                                        slider.n_drivers, slider.num_dates)]
    /\ UNCHANGED <<slider, exceptBand>>

NextBand == DefaultDistribution \/ ScoresDistribution

SpecBand == InitBand /\ [][NextBand]_vars

Scenario20x4 ==
    /\ band # NoBand
    /\ slider.total_blocks = 20
    /\ slider.n_drivers = 4

\* C6 as claimed: with 20 blocks and 4 drivers, the strictest slider value
\* gives the band [5,5] and the loosest a band with minimum at most 3 and
\* maximum at least 7, whatever the number of distinct dates.
C6_BandAsClaimed ==
    Scenario20x4 =>
        /\ slider.min_days = 5 => (band.max <= 5 /\ band.min <= 5)
        /\ slider.min_days = 3 => (band.min <= 3 /\ band.max >= 7)

\* C6 amended: with 20 blocks and 4 drivers, the strictest slider value gives
\* a band whose maximum is at most 5 (so the 4 drivers of a decoded schedule
\* hold exactly 5 blocks each), and it is [5,5] when the blocks fall on 5
\* dates or more; the loosest gives minimum at most 3 and maximum
\* min(7, num_dates): at least 7 only on 7 distinct dates or more.
C6_Band ==
    Scenario20x4 =>
        /\ slider.min_days = 5 =>
              /\ band.max <= 5
              /\ slider.n_drivers * band.max <= slider.total_blocks
              /\ slider.num_dates >= 5 => (band.min = 5 /\ band.max = 5)
        /\ slider.min_days = 3 =>
              /\ band.min <= 3
              /\ band.max = Min(7, slider.num_dates)
              /\ slider.num_dates >= 7 => (band.min = 3 /\ band.max = 7)

\* C6 witness: optimize's band for 20 blocks on 7 dates and 4 drivers at the
\* loosest slider value is [3,7].
C6_Witness ==
    /\ Scenario20x4
    /\ band.handler = "optimize"
    /\ slider.min_days = 3
    /\ slider.num_dates = 7
    /\ band.min = 3
    /\ band.max = 7

----------------------------------------------------------------------------
(* Slot ownership (xgboost_ownership.py).  A service date is modelled as   *)
(* the number of its week: ISO 'YYYY-MM-DD' strings compare as their dates *)
(* do, so d >= cutoff on strings is >= on weeks.  A driver's list of dates *)
(* is read only through len() and through the count of its dates at or     *)
(* after the cutoff, so it is kept as a bag: week |-> number of entries.    *)
(* A slot's dict of drivers keeps insertion order: a sequence of entries.   *)

MaxWeek == 2
Weeks == 1..MaxWeek
RecentWeeks == 8
OWNERSHIP_THRESHOLD_PCT == 70

DriverNames == {"Driver A", "Driver B", "Driver C"}
DaysOfWeek == {1, 2}

get_canonical_time(solo_type, tractor_id) ==
    IF solo_type = "solo1" /\ tractor_id = "Tractor_1" THEN "16:30"
    ELSE IF solo_type = "solo1" /\ tractor_id = "Tractor_2" THEN "20:30"
    ELSE IF solo_type = "solo2" /\ tractor_id = "Tractor_1" THEN "18:30"
    ELSE "00:00"

make_slot_key(solo_type, tractor_id, canonical_time, day_of_week) ==
    <<solo_type, tractor_id, canonical_time, day_of_week>>

SlotOf(day_of_week) ==
    make_slot_key("solo1", "Tractor_1",
                  get_canonical_time("solo1", "Tractor_1"), day_of_week)

SlotKeys == {SlotOf(d) : d \in DaysOfWeek}

NoDates == [w \in Weeks |-> 0]

\* len(dates)
Count(dates) == SumOver(Weeks, dates)

\* Mutant of RecentCount: counts the dates before the cutoff.
RecentCountBefore(dates, cutoff) ==
    SumOver({w \in Weeks : w < cutoff}, dates)

\* sum(1 for d in ownership[driver] if d >= cutoff)
RecentCount(dates, cutoff) ==
    SumOver({w \in Weeks : w >= cutoff}, dates)

\* (datetime.now() - timedelta(weeks=8)).strftime('%Y-%m-%d')
Cutoff(today) == today - RecentWeeks

\* Python's max(items, key=...) returns the first item with the largest key.
FirstMax(keys) ==
    CHOOSE i \in DOMAIN keys :
        /\ \A j \in DOMAIN keys : keys[j] <= keys[i]
        /\ \A j \in DOMAIN keys : j < i => keys[j] < keys[i]

Counts(ownership) == [i \in DOMAIN ownership |-> Count(ownership[i].dates)]

Total(ownership) ==
    SumOver(DOMAIN ownership, Counts(ownership))

\* [d for d, c in counts.items() if c == max_count], as positions in the dict
TiedDrivers(ownership) ==
    LET counts == Counts(ownership)
        max_count == counts[FirstMax(counts)]
    IN  SelectSeq([i \in DOMAIN ownership |-> i],
                  LAMBDA i : counts[i] = max_count)

\* Mutant of ReachesThreshold: a strict comparison.
ExceedsThreshold(count, total) ==
    100 * count > OWNERSHIP_THRESHOLD_PCT * total

\* count / total >= 0.70.  The quotient of two integers is the double
\* nearest to the ratio and 0.70 is the double nearest to 7/10, so for the
\* totals considered the comparison is the one on the exact ratio.
ReachesThreshold(count, total) ==
    100 * count >= OWNERSHIP_THRESHOLD_PCT * total

\* predict_owner: the results it may return for the slot's dict, the
\* fitted flag and the current date.  The trained model's prediction for a
\* slot without history is any driver the encoder knows.
predict_owner(ownership, fitted, today) ==
    IF Len(ownership) > 0
    THEN LET counts == Counts(ownership)
             tied_drivers == TiedDrivers(ownership)
             recent_counts ==
                 [k \in DOMAIN tied_drivers |->
                     RecentCount(ownership[tied_drivers[k]].dates, Cutoff(today))]
             best == IF Len(tied_drivers) = 1 THEN tied_drivers[1]
                     ELSE tied_drivers[FirstMax(recent_counts)]
         IN  {[driver |-> ownership[best].driver,
               confidence |-> <<counts[best], Total(ownership)>>,
               source |-> "history"]}
    ELSE IF fitted
    THEN {[driver |-> d, confidence |-> <<1, 1>>, source |-> "model"] :
              d \in DriverNames}
    ELSE {[driver |-> "Unknown", confidence |-> <<0, 1>>, source |-> "none"]}

\* get_ownership_distribution
get_ownership_distribution(ownership) ==
    IF Len(ownership) = 0 \/ Total(ownership) = 0
    THEN [slot_type |-> "unknown", owner |-> "None",
          owner_share |-> <<0, 1>>, total_assignments |-> 0]
    ELSE LET counts == Counts(ownership)
             total == Total(ownership)
             top_driver == FirstMax(counts)
         IN  IF ReachesThreshold(counts[top_driver], total)
             THEN [slot_type |-> "owned", owner |-> ownership[top_driver].driver,
                   owner_share |-> <<counts[top_driver], total>>,
                   total_assignments |-> total]
             ELSE [slot_type |-> "rotating", owner |-> "None",
                   owner_share |-> <<counts[top_driver], total>>,
                   total_assignments |-> total]

\* self.slot_ownership[slot_key][driver_name].append(service_date)
Append1(ownership, driver_name, service_date) ==
    IF \E i \in DOMAIN ownership : ownership[i].driver = driver_name
    THEN [i \in DOMAIN ownership |->
             IF ownership[i].driver = driver_name
             THEN [ownership[i] EXCEPT !.dates[service_date] = @ + 1]
             ELSE ownership[i]]
    ELSE Append(ownership,
                [driver |-> driver_name,
                 dates |-> [NoDates EXCEPT ![service_date] = 1]])

\* The loop of build_training_data over the assignments, in order.
RECURSIVE Ingest(_, _, _)
Ingest(so, assignments, i) ==
    IF i > Len(assignments) THEN so
    ELSE LET a == assignments[i]
             slot_key == make_slot_key(a.soloType, a.tractorId,
                             get_canonical_time(a.soloType, a.tractorId),
                             a.dayOfWeek)
         IN  Ingest([so EXCEPT ![slot_key] =
                        Append1(so[slot_key], a.driverName, a.serviceDate)],
                    assignments, i + 1)

PredictOwner ==
    /\ \E day_of_week \in DaysOfWeek :
       \E r \in predict_owner(slot_ownership[SlotOf(day_of_week)], is_fitted, now) :
           answer' = [op |-> "predict_owner", slot |-> SlotOf(day_of_week),
                      verdict |-> <<r.driver>>, detail |-> r,
                      at |-> now, trained |-> runs > 0]
    /\ UNCHANGED <<records, slot_ownership, is_fitted, runs, now,
                   exceptOwnership>>

GetOwnershipDistribution ==
    /\ \E day_of_week \in DaysOfWeek :
       LET r == get_ownership_distribution(slot_ownership[SlotOf(day_of_week)])
       IN  answer' = [op |-> "get_ownership_distribution",
                      slot |-> SlotOf(day_of_week),
                      verdict |-> <<r.slot_type, r.owner>>, detail |-> r,
                      at |-> now, trained |-> runs > 0]
    /\ UNCHANGED <<records, slot_ownership, is_fitted, runs, now,
                   exceptOwnership>>

----------------------------------------------------------------------------
(* Classification of one slot from a loaded ownership table: the queries   *)
(* as functions of the table, over every order of the drivers in it.       *)

MaxShareCount == 100
MaxTieCount == 6
MaxSmallCount == 1

\* The current week: week MaxWeek is inside the 8-week window, week 1 is not.
ClassifyNow == RecentWeeks + MaxWeek

Entry(driver, old, recent) ==
    [driver |-> driver,
     dates |-> [w \in Weeks |-> IF w = MaxWeek THEN recent
                                ELSE IF w = 1 THEN old ELSE 0]]

Orders(S) ==
    {o \in [1..Cardinality(S) -> S] :
        \A i, j \in DOMAIN o : i # j => o[i] # o[j]}

HistoryCounts(max) ==
    {c \in (0..max) \X (0..max) : c[1] + c[2] >= 1}

\* Tables of up to two drivers whose records are all old: the shares.
ShareTables ==
    {<<Entry(d, a, 0)>> : d \in {"Driver A"}, a \in 1..MaxShareCount}
    \cup
    UNION {{<<Entry(o[1], c[1], 0), Entry(o[2], c[2], 0)>> :
                o \in Orders({"Driver A", "Driver B"})} :
            c \in {c \in (1..MaxShareCount) \X (1..MaxShareCount) :
                      c[1] + c[2] <= MaxShareCount}}

\* Tables of two drivers with old and recent records: the ties.
TieTables ==
    UNION {{<<Entry(o[1], ca[1], ca[2]), Entry(o[2], cb[1], cb[2])>> :
                o \in Orders({"Driver A", "Driver B"})} :
            ca \in HistoryCounts(MaxTieCount), cb \in HistoryCounts(MaxTieCount)}

\* Tables of three drivers with a few records each.
SmallTables ==
    UNION {{<<Entry(o[1], c[1][1], c[1][2]), Entry(o[2], c[2][1], c[2][2]),
              Entry(o[3], c[3][1], c[3][2])>> : o \in Orders(DriverNames)} :
            c \in [1..3 -> HistoryCounts(MaxSmallCount)]}

LoadedTables == {<<>>} \cup ShareTables \cup TieTables \cup SmallTables

\* The classifier after load(), or after records were put in slot_ownership
\* directly as test-tiebreak.py does (is_fitted stays False).
InitClassify ==
    /\ \E t \in LoadedTables :
           slot_ownership = [k \in SlotKeys |-> IF k = SlotOf(1) THEN t ELSE <<>>]
    /\ is_fitted \in BOOLEAN
    /\ now = ClassifyNow
    /\ records = <<>>
    /\ runs = 0
    /\ answer = NoAnswer
    /\ OwnershipAlone

NextClassify == PredictOwner \/ GetOwnershipDistribution

SpecClassify == InitClassify /\ [][NextClassify]_vars

\* Number of a table entry's records, and of those in the last 8 weeks.
Held(e) == SumOver(Weeks, e.dates)
HeldRecently(e) == SumOver({w \in Weeks : w >= now - 8}, e.dates)

\* C8: get_ownership_distribution classifies a slot with history as owned by
\* X exactly when X holds at least 70% of the slot's occurrences, and as
\* rotating with no owner when no driver reaches 70%.
C8_OwnedIffSeventyPercent ==
    answer.op = "get_ownership_distribution" =>
        LET table == slot_ownership[answer.slot]
            total == SumOver(DOMAIN table, [i \in DOMAIN table |-> Held(table[i])])
            holders == {i \in DOMAIN table : 100 * Held(table[i]) >= 70 * total}
        IN  total > 0 =>
                IF holders # {}
                THEN \E i \in holders : answer.verdict = <<"owned", table[i].driver>>
                ELSE answer.verdict = <<"rotating", "None">>

\* C8 witness: a driver holding exactly 7 of a slot's 10 occurrences owns it.
C8_Witness ==
    /\ answer.op = "get_ownership_distribution"
    /\ answer.detail.total_assignments = 10
    /\ answer.detail.owner_share = <<7, 10>>
    /\ answer.verdict = <<"owned", "Driver B">>

\* C9: when two or more drivers are tied for the largest total at a slot and
\* one of them has more records in the last 8 weeks than every other tied
\* driver, predict_owner returns that driver, in every order of the table.
C9_RecentCountBreaksTie ==
    answer.op = "predict_owner" =>
        LET table == slot_ownership[answer.slot]
            tied == {i \in DOMAIN table :
                        \A j \in DOMAIN table : Held(table[j]) <= Held(table[i])}
        IN  \A i \in tied :
                (/\ Cardinality(tied) >= 2
                 /\ \A j \in tied \ {i} :
                        HeldRecently(table[j]) < HeldRecently(table[i]))
                => answer.verdict = <<table[i].driver>>

\* C9 witness: A with 5 recent and 1 old record wins over B with 1 recent and
\* 5 old, B being first in the table.
C9_Witness ==
    /\ answer.op = "predict_owner"
    /\ slot_ownership[answer.slot] =
           <<Entry("Driver B", 5, 1), Entry("Driver A", 1, 5)>>
    /\ answer.verdict = <<"Driver A">>

----------------------------------------------------------------------------
(* One classifier object over time: a fixed history is ingested, possibly  *)
(* more than once, queries are made, and the calendar advances.            *)

MaxRecords == 3
MaxRuns == 2

AssignmentRecs ==
    [driverName : {"Driver A", "Driver B"}, soloType : {"solo1"},
     tractorId : {"Tractor_1"}, dayOfWeek : {1}, serviceDate : Weeks]

Histories == UNION {[1..n -> AssignmentRecs] : n \in 0..MaxRecords}

\* OwnershipClassifier() and the history it will be given.
InitOwn ==
    /\ records \in Histories
    /\ slot_ownership = [k \in SlotKeys |-> <<>>]
    /\ is_fitted = FALSE
    /\ runs = 0
    /\ now = RecentWeeks + 1
    /\ answer = NoAnswer
    /\ OwnershipAlone

\* build_training_data(assignments) on the same object: the dates are
\* appended to the lists already there.  With fewer than 10 samples fit()
\* returns False after it, so is_fitted stays False.
BuildTrainingData ==
    /\ runs < MaxRuns
    /\ slot_ownership' = Ingest(slot_ownership, records, 1)
    /\ runs' = runs + 1
    /\ UNCHANGED <<records, is_fitted, now, answer, exceptOwnership>>

\* datetime.now() a week later.
Tick ==
    /\ now < RecentWeeks + MaxWeek
    /\ now' = now + 1
    /\ UNCHANGED <<records, slot_ownership, is_fitted, runs, answer,
                   exceptOwnership>>

NextOwn == BuildTrainingData \/ Tick \/ PredictOwner \/ GetOwnershipDistribution

SpecOwn == InitOwn /\ [][NextOwn]_vars

SameQueryAgain ==
    /\ answer.op # "none"
    /\ answer'.op = answer.op
    /\ answer'.slot = answer.slot
    /\ answer.trained
    /\ answer'.trained

\* C10: for an unchanged history, two runs of the same query on a trained
\* classifier return the same owned/rotating verdict and the same tie-break
\* winner, also at different current dates and after repeated ingestion.
C10_Idempotent ==
    [][SameQueryAgain => answer'.verdict = answer.verdict]_vars

\* The same, for two runs at the same current date.
SameDateIdempotent ==
    [][(SameQueryAgain /\ answer'.at = answer.at)
          => answer'.verdict = answer.verdict]_vars

----------------------------------------------------------------------------
(* Driver statistics (xgboost_availability.py, xgboost_ranker.py).  A date *)
(* is the number of its day, day 1 being a Sunday; a history record holds  *)
(* a date, a string that does not parse as one, or no date at all.  A      *)
(* float that is a quotient is kept as the pair <<numerator, denominator>>;*)
(* a standard deviation as <<"sqrt", numerator, denominator>>.             *)

MaxDay == 45
MaxHistory == 3
HugeGap == 30

WorkDays == {1, 2, 3, 30, 31, 32, MaxDay}
\* A serviceDate that pd.to_datetime rejects, and a record without one.
BadDate == -1
NoDate == 0
DateInputs == WorkDays \cup {BadDate, NoDate}

DriverHistories ==
    UNION {[1..n -> [serviceDate : DateInputs]] : n \in 0..MaxHistory}

\* (date.weekday() + 1) % 7: Sunday = 0
Weekday(day) == (day - 1) % 7

\* if date_str: try: pd.to_datetime(date_str) ... except: continue
Parses(a) == a.serviceDate # NoDate /\ a.serviceDate # BadDate

ParsedDates(h) ==
    LET kept == SelectSeq(h, Parses)
    IN  [i \in DOMAIN kept |-> kept[i].serviceDate]

\* sorted(set(work_dates))
RECURSIVE SortedSet(_)
SortedSet(S) ==
    IF S = {} THEN <<>>
    ELSE LET least == CHOOSE x \in S : \A y \in S : x <= y
         IN  <<least>> \o SortedSet(S \ {least})

\* Mutant of UsableGap: every positive gap counts.
PositiveGap(gap) == gap > 0

\* if gap > 0 and gap < 30
UsableGap(gap) == gap > 0 /\ gap < HugeGap

Intervals(work_dates) ==
    SelectSeq([i \in 1..(Len(work_dates) - 1) |-> work_dates[i + 1] - work_dates[i]],
              UsableGap)

RECURSIVE SeqSum(_)
SeqSum(q) == IF q = <<>> THEN 0 ELSE Head(q) + SeqSum(Tail(q))

\* np.mean(intervals)
Mean(q) == <<SeqSum(q), Len(q)>>

\* np.std(intervals): the population standard deviation
Std(q) ==
    <<"sqrt", Len(q) * SeqSum([i \in DOMAIN q |-> q[i] * q[i]]) - SeqSum(q) * SeqSum(q),
      Len(q) * Len(q)>>

WeekdayCounts(dates) ==
    [d \in 0..6 |-> Cardinality({i \in DOMAIN dates : Weekday(dates[i]) = d})]

\* AvailabilityClassifier._compute_driver_stats
AvailabilityStats(h) ==
    IF h = <<>>
    THEN [work_dates |-> <<>>, weekday_counts |-> [d \in 0..6 |-> 0],
          total_days |-> 0, rolling_interval |-> <<3, 1>>,
          interval_std |-> <<"sqrt", 1, 1>>]
    ELSE LET work_dates == SortedSet({ParsedDates(h)[i] : i \in DOMAIN ParsedDates(h)})
             intervals == IF Len(work_dates) >= 2 THEN Intervals(work_dates) ELSE <<>>
         IN  [work_dates |-> work_dates,
              weekday_counts |-> WeekdayCounts(ParsedDates(h)),
              total_days |-> Len(work_dates),
              rolling_interval |-> IF intervals # <<>> THEN Mean(intervals) ELSE <<3, 1>>,
              interval_std |-> IF Len(intervals) > 1 THEN Std(intervals)
                               ELSE <<"sqrt", 1, 1>>]

\* DriverBlockRanker._compute_driver_stats on a cache miss
RankerStats(h) ==
    IF h = <<>>
    THEN [work_dates |-> <<>>, weekday_counts |-> [d \in 0..6 |-> 0],
          total_days |-> 0, rolling_interval |-> <<3, 1>>,
          avg_days_per_week |-> <<0, 1>>]
    ELSE LET work_dates == SortedSet({ParsedDates(h)[i] : i \in DOMAIN ParsedDates(h)})
             intervals == IF Len(work_dates) >= 2 THEN Intervals(work_dates) ELSE <<>>
             date_range == work_dates[Len(work_dates)] - work_dates[1]
         IN  [work_dates |-> work_dates,
              weekday_counts |-> WeekdayCounts(ParsedDates(h)),
              total_days |-> Len(work_dates),
              rolling_interval |-> IF intervals # <<>> THEN Mean(intervals) ELSE <<3, 1>>,
              avg_days_per_week |->
                  IF Len(work_dates) >= 2
                  THEN (IF date_range >= 7 THEN <<7 * Len(work_dates), date_range>>
                        ELSE <<Len(work_dates), 1>>)
                  ELSE <<Len(work_dates), 1>>]

StatsDriver == "driver-1"

InitStats ==
    /\ history \in DriverHistories
    /\ stats = NoStats
    /\ driver_stats_cache = <<>>
    /\ StatsAlone

\* AvailabilityClassifier._compute_driver_stats(driver_id, history)
ComputeDriverStats ==
    /\ stats' = AvailabilityStats(history) @@ [by |-> "availability"]
    /\ UNCHANGED <<history, driver_stats_cache, exceptStats>>

\* DriverBlockRanker._compute_driver_stats(driver_id, h): what it returns.
CachedStats(cache, h) ==
    IF StatsDriver \in DOMAIN cache THEN cache[StatsDriver] ELSE RankerStats(h)

\* DriverBlockRanker._compute_driver_stats(driver_id, h): the cache after it;
\* the statistics of an empty history are returned without being stored.
CacheAfter(cache, h) ==
    IF StatsDriver \in DOMAIN cache \/ h = <<>> THEN cache
    ELSE [d \in {StatsDriver} |-> RankerStats(h)]

\* DriverBlockRanker._compute_driver_stats(driver_id, history)
RankerComputeDriverStats ==
    /\ stats' = CachedStats(driver_stats_cache, history)
                    @@ [by |-> "ranker", hit |-> StatsDriver \in DOMAIN driver_stats_cache]
    /\ driver_stats_cache' = CacheAfter(driver_stats_cache, history)
    /\ UNCHANGED <<history, exceptStats>>

\* history_before: the records dated before the block's date.
HistoryBefore(h, block_date) == SelectSeq(h, LAMBDA a : a.serviceDate < block_date)

\* DriverBlockRanker.build_training_data, the sample of the driver for one
\* block: history_before is built with pd.to_datetime(...).to_pydatetime()
\* on every record outside any try, then the statistics are asked for it.
RankerTrainingSample ==
    /\ \E block_date \in WorkDays :
          IF \A i \in DOMAIN history : Parses(history[i])
          THEN /\ stats' = CachedStats(driver_stats_cache, HistoryBefore(history, block_date))
                              @@ [by |-> "ranker_training", raised |-> FALSE,
                                  before |-> block_date]
               /\ driver_stats_cache' =
                     CacheAfter(driver_stats_cache, HistoryBefore(history, block_date))
          ELSE /\ stats' = [by |-> "ranker_training", raised |-> TRUE, before |-> block_date]
               /\ UNCHANGED driver_stats_cache
    /\ UNCHANGED <<history, exceptStats>>

\* The history without its records whose date is missing or does not parse.
Clean(h) == SelectSeq(h, Parses)

HasBadDate(h) == \E i \in DOMAIN h : h[i].serviceDate = BadDate
HasNoDate(h) == \E i \in DOMAIN h : h[i].serviceDate = NoDate

\* AvailabilityClassifier.build_training_data for the history of one driver:
\* whether it raised, and the number of positive samples.  history_before is
\* built with pd.to_datetime(...).to_pydatetime() on every record, outside
\* any try; for a record without a date that expression raises or compares
\* false.
TrainingData(h) ==
    IF Len(ParsedDates(h)) = 0
    THEN {[raised |-> FALSE, positives |-> 0]}
    ELSE IF HasBadDate(h)
    THEN {[raised |-> TRUE, positives |-> 0]}
    ELSE {[raised |-> FALSE, positives |-> AvailabilityStats(h).total_days]}
         \cup (IF HasNoDate(h) THEN {[raised |-> TRUE, positives |-> 0]} ELSE {})

\* A difference of dates one of which is NaT.
NaN == -1

RECURSIVE SortedSeq(_)
SortedSeq(q) ==
    IF q = <<>> THEN <<>>
    ELSE LET i == CHOOSE i \in DOMAIN q : \A j \in DOMAIN q : q[i] <= q[j]
         IN  <<q[i]>> \o SortedSeq([k \in 1..(Len(q) - 1) |-> IF k < i THEN q[k] ELSE q[k + 1]])

\* PatternAnalyzer._detect_interval_pattern: whether it raised, and the
\* intervals between consecutive records.  pd.to_datetime(df[date_col]) is
\* outside any try; a record without a date becomes NaT, sorted last.
DetectIntervalPattern(h) ==
    IF Len(h) < 3 \/ \A i \in DOMAIN h : h[i].serviceDate = NoDate
    THEN [raised |-> FALSE, intervals |-> <<>>]
    ELSE IF HasBadDate(h)
    THEN [raised |-> TRUE, intervals |-> <<>>]
    ELSE LET dates == SortedSeq(ParsedDates(h))
         IN  [raised |-> FALSE,
              intervals |-> [i \in 1..(Len(h) - 1) |->
                                IF i < Len(dates) THEN dates[i + 1] - dates[i] ELSE NaN]]

\* AvailabilityClassifier.build_training_data({driver_id: history})
AvailabilityBuildTrainingData ==
    /\ \E r \in TrainingData(history) : stats' = r @@ [by |-> "training"]
    /\ UNCHANGED <<history, driver_stats_cache, exceptStats>>

\* PatternAnalyzer._detect_interval_pattern(history)
DetectIntervalPatternCall ==
    /\ stats' = DetectIntervalPattern(history) @@ [by |-> "interval"]
    /\ UNCHANGED <<history, driver_stats_cache, exceptStats>>

NextStats ==
    \/ ComputeDriverStats
    \/ RankerComputeDriverStats
    \/ AvailabilityBuildTrainingData
    \/ DetectIntervalPatternCall
    \/ RankerTrainingSample

SpecStats == InitStats /\ [][NextStats]_vars

\* The driver's distinct work dates and the gaps under 30 days between
\* neighbouring ones.
DistinctDates ==
    {d \in {history[i].serviceDate : i \in DOMAIN history} : d >= 1}
Neighbours ==
    {p \in DistinctDates \X DistinctDates :
        /\ p[1] < p[2]
        /\ ~ \E x \in DistinctDates : p[1] < x /\ x < p[2]}
ShortGaps == {p \in Neighbours : p[2] - p[1] < 30}
ShortGapSum == SumOver(ShortGaps, [p \in ShortGaps |-> p[2] - p[1]])
Returned == stats # NoStats
Computed == Returned /\ stats.by \in {"availability", "ranker"}

\* The statistics were computed by the call, not taken from the ranker's cache.
Fresh == stats.by = "availability" \/ ~stats.hit

\* C11: the rolling interval is the mean of the gaps under 30 days between
\* consecutive distinct work dates; a gap of 30 days or more contributes
\* nothing.
C11_IntervalFromShortGaps ==
    (Computed /\ Fresh /\ ShortGaps # {}) =>
        stats.rolling_interval[1] * Cardinality(ShortGaps)
            = ShortGapSum * stats.rolling_interval[2]

\* C11 witness: for the history [day 1, day 2, day 45] the interval is 1.
C11_Witness ==
    /\ Computed
    /\ history = <<[serviceDate |-> 1], [serviceDate |-> 2], [serviceDate |-> 45]>>
    /\ stats.rolling_interval = <<1, 1>>

\* C12: with fewer than two gaps under 30 days the reported interval and
\* standard deviation are the defaults 3.0 and 1.0.
C12_DefaultsBelowTwoGaps ==
    (Computed /\ stats.by = "availability" /\ Cardinality(ShortGaps) < 2) =>
        /\ stats.rolling_interval[1] = 3 * stats.rolling_interval[2]
        /\ stats.interval_std = <<"sqrt", 1, 1>>

----------------------------------------------------------------------------
(* Driver profiles: PatternAnalyzer.cluster_drivers (pattern_analyzer.py)  *)
(* and analyze_driver_dna (assignment_predictor.py).  K-Means is a black   *)
(* box: the label of a driver's cluster is any of the three groups.        *)

MaxAssignments == 8
MIN_ASSIGNMENTS_FOR_PATTERN == 8

PatternGroups == {"sunWed", "wedSat", "mixed"}

\* n records on the Sundays of n consecutive weeks.
WeeklySundays(n) == [i \in 1..n |-> [serviceDate |-> 1 + 7 * (i - 1)]]

Repeated(n, date) == [i \in 1..n |-> [serviceDate |-> date]]

\* Histories of weekly Sundays, Wednesdays, Fridays and unparseable dates.
ProfileHistories ==
    {WeeklySundays(c[1]) \o Repeated(c[2], 4) \o Repeated(c[3], 6) \o Repeated(c[4], BadDate) :
        c \in {c \in [1..4 -> 0..MaxAssignments] :
                  c[1] + c[2] + c[3] + c[4] <= MaxAssignments}}

\* cluster_drivers, for one driver of driver_histories
ClusterDrivers(assignments) ==
    LET num_assignments == Len(assignments)
    IN  {[patternGroup |-> pattern_group, assignmentsAnalyzed |-> num_assignments,
          by |-> "cluster_drivers"] :
            pattern_group \in IF num_assignments >= MIN_ASSIGNMENTS_FOR_PATTERN
                              THEN PatternGroups ELSE {"None"}}

\* day_counter of analyze_driver_dna, summed over a set of weekdays
DayCount(assignments, weekdays) ==
    Cardinality({i \in DOMAIN assignments :
                    /\ assignments[i].serviceDate # BadDate
                    /\ Weekday(assignments[i].serviceDate) \in weekdays})

\* analyze_driver_dna.  count / total >= 0.7 with count a multiple of 1/2
\* is 10 * (2 * count) >= 14 * total.
AnalyzeDriverDna(assignments) ==
    IF assignments = <<>>
    THEN [patternGroup |-> "mixed", assignmentsAnalyzed |-> 0,
          by |-> "analyze_driver_dna"]
    ELSE LET total_assignments == DayCount(assignments, 0..6)
             wed_count == DayCount(assignments, {3})
             sun_wed_twice == 2 * DayCount(assignments, 0..3) - wed_count
             wed_sat_twice == 2 * DayCount(assignments, 3..6) - wed_count
             pattern_group ==
                 IF total_assignments > 0
                 THEN IF 10 * sun_wed_twice >= 14 * total_assignments THEN "sunWed"
                      ELSE IF 10 * wed_sat_twice >= 14 * total_assignments THEN "wedSat"
                      ELSE "mixed"
                 ELSE "mixed"
         IN  [patternGroup |-> pattern_group,
              assignmentsAnalyzed |-> Len(assignments),
              by |-> "analyze_driver_dna"]

InitProfile ==
    /\ history \in ProfileHistories
    /\ stats = NoStats
    /\ driver_stats_cache = <<>>
    /\ StatsAlone

ClusterDriversCall ==
    /\ stats' \in ClusterDrivers(history)
    /\ UNCHANGED <<history, driver_stats_cache, exceptStats>>

AnalyzeDriverDnaCall ==
    /\ stats' = AnalyzeDriverDna(history)
    /\ UNCHANGED <<history, driver_stats_cache, exceptStats>>

NextProfile == ClusterDriversCall \/ AnalyzeDriverDnaCall

SpecProfile == InitProfile /\ [][NextProfile]_vars

\* C13: a profile carries a pattern group (sunWed, wedSat or mixed) only if
\* the driver has at least 8 historical assignments.
C13_PatternGroupNeedsEight ==
    (stats # NoStats /\ stats.patternGroup \in {"sunWed", "wedSat", "mixed"})
        => Len(history) >= 8

----------------------------------------------------------------------------
(* Properties of the optimizer's response: solve outcomes.                 *)

Success == {"OPTIMAL", "FEASIBLE"}

\* The blocks of a solved unit: a contract type's partition in optimize, the
\* whole request in optimize_with_scores.
UnitBlocks(unit) ==
    IF unit = "all" THEN DOMAIN request.blocks
    ELSE {b \in DOMAIN request.blocks : NormType(request.blocks[b].contractType) = unit}

HistoryDrivers(ct) ==
    {d \in DOMAIN request.drivers :
        /\ request.driverHistories = "given"
        /\ request.drivers[d].history >= 1
        /\ NormType(request.drivers[d].contractType) = ct}

Solved(ct) == \E i \in DOMAIN result.log : result.log[i].unit = ct

\* C14: for every solve that ends INFEASIBLE, MODEL_INVALID or UNKNOWN, no
\* assignment is emitted for the blocks of its unit and every one of them is
\* listed in unassigned.
C14_OnlySuccessDecoded ==
    Done => \A i \in DOMAIN result.log :
                result.log[i].status \notin Success =>
                    \A b \in UnitBlocks(result.log[i].unit) :
                        /\ b \in result.unassigned
                        /\ \A a \in result.assignments : a.blockId # b

\* C14 witness: an optimize run in which one partition's solve timed out and
\* another partition's solve was decoded.
C14_Witness ==
    /\ Done
    /\ request.action = "optimize"
    /\ \E i \in DOMAIN result.log : result.log[i].status = "UNKNOWN"
    /\ result.assignments # {}
    /\ result.unassigned # {}

C16_FailureReported ==
    (Done /\ request.action = "optimize") =>
        ((\E i \in DOMAIN result.log : result.log[i].status \notin Success)
            => result.stats.solverStatus \notin Success)

----------------------------------------------------------------------------
(* optimize with driverPreferences: requests of solo1 drivers with history, *)
(* each with its own preferences, and solo1 blocks whose day is written by  *)
(* the caller.                                                              *)

AllowedDaysOptions == {{}, {"Monday"}, {"sunday"}}
PrefRecs == [minDays : {NoPref, 0, 3}, maxDays : {NoPref, 1}, allowedDays : AllowedDaysOptions]

PrefRank(prefs) ==
    (IF prefs.minDays = NoPref THEN 0 ELSE IF prefs.minDays = 0 THEN 6 ELSE 12)
    + (IF prefs.maxDays = NoPref THEN 0 ELSE 3)
    + (CASE prefs.allowedDays = {} -> 0 [] prefs.allowedDays = {"Monday"} -> 1 [] OTHER -> 2)

\* The drivers differ by their preferences only: lists are drawn up to order.
PrefLists ==
    UNION {{ps \in [1..n -> PrefRecs] :
              \A i \in 1..n : \A j \in 1..n :
                  i < j => PrefRank(ps[i]) <= PrefRank(ps[j])} : n \in 1..MaxDrivers}

DayBlockRecs == [contractType : {"solo1"}, serviceDate : ServiceDates, day : DayNames]
DayBlockRank(r) == 2 * DateRank(r.serviceDate) + (IF r.day = "Sunday" THEN 0 ELSE 1)

DayBlockLists ==
    UNION {{bs \in [1..n -> DayBlockRecs] :
              \A i \in 1..n : \A j \in 1..n :
                  i < j => DayBlockRank(bs[i]) <= DayBlockRank(bs[j])} : n \in 0..MaxBlocks}

InitPrefs ==
    /\ \E ps \in PrefLists : \E bs \in DayBlockLists : \E m \in {3, 5} :
           request = [action |-> "optimize",
                      drivers |-> [d \in DOMAIN ps |->
                                      [contractType |-> "solo1",
                                       history |-> MIN_HISTORY_FOR_ASSIGNMENT]],
                      blocks |-> bs, minDays |-> m, scoreMatrix |-> NoScores,
                      driverHistories |-> "given", driverPreferences |-> ps]
    /\ scorers = [forecaster |-> "unavailable", ML_AVAILABLE |-> FALSE]
    /\ result = NoResult
    /\ pc = "ready"
    /\ OptimizerAlone

NextPrefs == Optimize

SpecPrefs == InitPrefs /\ [][NextPrefs]_vars

\* The days a driver's preferences allow, compared without regard to case.
AllowedOf(d) == {Lower(day) : day \in request.driverPreferences[d].allowedDays}

\* C17: in optimize, a driver whose allowedDays is not empty has no
\* assignment to a block whose day is outside allowedDays.
C17_AllowedDaysRespected ==
    (Done /\ request.action = "optimize") =>
        \A a \in result.assignments :
            AllowedOf(a.driverId) # {} => Lower(a.day) \in AllowedOf(a.driverId)

\* C17 witness: a driver restricted to one day was assigned a block of that
\* day while a block of another day went to another driver.
C17_Witness ==
    /\ Done
    /\ \E a \in result.assignments : \E o \in result.assignments :
          /\ AllowedOf(a.driverId) # {}
          /\ Lower(o.day) \notin AllowedOf(a.driverId)
          /\ o.driverId # a.driverId

----------------------------------------------------------------------------
(* optimize under every state of the scorers: the scoring cascade.          *)

InitCascade ==
    /\ \E ds \in DriverLists : \E bs \in BlockLists : \E h \in HistoriesOptions(ds) :
           request = [action |-> "optimize", drivers |-> ds, blocks |-> WithDays(bs),
                      minDays |-> 3, scoreMatrix |-> NoScores, driverHistories |-> h,
                      driverPreferences |-> [d \in DOMAIN ds |-> NoPrefs]]
    /\ scorers \in ScorerStates
    /\ result = NoResult
    /\ pc = "ready"
    /\ OptimizerAlone

NextCascade == Optimize

SpecCascade == InitCascade /\ [][NextCascade]_vars

\* The learned availability model is available, trained and yielded scores:
\* there is a history to train on and a (driver, block) pair to score.
LearnedScores ==
    /\ request.driverHistories = "given"
    /\ scorers.forecaster = "scores"
    /\ EligibleDrivers(request) # {}
    /\ DOMAIN request.blocks # {}

\* The pattern analyzer is available: it was imported and has a history.
ClusterScores == request.driverHistories = "given" /\ scorers.ML_AVAILABLE

\* C20: an optimize run has one scoring method, the first of learned model,
\* cluster affinity and raw history that is available; every assignment's
\* scoringMethod is that method, and the objective coefficients of every solve
\* are read from that method only.
C20_SingleScoringMethod ==
    (Done /\ request.action = "optimize") =>
        /\ result.scoringMethod =
              (IF LearnedScores THEN "xgboost"
               ELSE IF ClusterScores THEN "kmeans"
               ELSE "raw_history")
        /\ \A a \in result.assignments : a.scoringMethod = result.scoringMethod
        /\ \A i \in DOMAIN result.log : result.log[i].sources = {result.scoringMethod}

\* C20 witness: two partitions were solved and both decoded in a run scored
\* by the learned model.
C20_Witness ==
    /\ Done
    /\ result.scoringMethod = "xgboost"
    /\ Len(result.log) = 2
    /\ \E a \in result.assignments : \E b \in result.assignments :
          NormType(a.contractType) # NormType(b.contractType)

----------------------------------------------------------------------------
(* Entry points: main() of schedule_optimizer.py, pattern_analyzer.py and   *)
(* xgboost_ownership.py.  A script is started with a body on stdin, prints  *)
(* to stdout and exits.  The items of a parsed body are well formed; what a  *)
(* handler prints on success is not looked into here.                       *)

MaxTrainCount == 6

Programs == {"schedule_optimizer", "pattern_analyzer", "xgboost_ownership"}

\* data.get("action", <default>) finds no action.
NoAction == "<default>"

\* An action none of the scripts knows.
BogusAction == "bogus"

OptimizerActions == {"optimize", "optimize_with_scores"}
PatternActions == {"cluster", "predict"}
OwnershipActions == {"train", "predict", "get_distribution", "get_driver_pattern"}

\* The assignments of a train request, as only fit reads them: the number of
\* records of each driver name.
TrainDrivers == {"d1", "d2", "d3"}
TrainingSets == [TrainDrivers -> 0..MaxTrainCount]
NoTraining == [d \in TrainDrivers |-> 0]

\* What is on stdin: nothing, text that is not JSON, or a JSON object with
\* its action, the names of the other fields it has, and its assignments.
Body(kind, action, given, training) ==
    [kind |-> kind, action |-> action, given |-> given, training |-> training]

Unparsed == {Body(k, NoAction, {}, NoTraining) : k \in {"empty", "invalid_json"}}

OptimizerBodies ==
    Unparsed \cup
    {Body("json", a, g, NoTraining) :
        a \in OptimizerActions \cup {NoAction, BogusAction},
        g \in SUBSET {"drivers", "blocks"}}

PatternBodies ==
    Unparsed \cup
    {Body("json", a, g, NoTraining) :
        a \in PatternActions \cup {NoAction, BogusAction},
        g \in SUBSET {"driverHistories"}}

OwnershipBodies ==
    Unparsed \cup
    {Body("json", a, {"assignments"}, t) : a \in {"train", NoAction}, t \in TrainingSets} \cup
    {Body("json", a, g, NoTraining) :
        a \in OwnershipActions \cup {NoAction, BogusAction},
        g \in SUBSET {"driverName"}}

Bodies(program) ==
    CASE program = "schedule_optimizer" -> OptimizerBodies
      [] program = "pattern_analyzer" -> PatternBodies
      [] OTHER -> OwnershipBodies

\* What a run leaves behind: its exit status, whether it printed a JSON object
\* to stdout, that object's success field ("absent" when it has none) and its
\* error field ("none" when it has none).
Exit(status, stdout, success, error) ==
    [status |-> status, stdout |-> stdout, success |-> success, error |-> error]

\* An exception no handler catches: the traceback goes to stderr.
Traceback == Exit(1, "none", "absent", "none")

ActionOf(body, default) == IF body.action = NoAction THEN default ELSE body.action

\* schedule_optimizer.main
OptimizerMainExit(body) ==
    IF body.kind = "empty" THEN Exit(1, "json", "absent", "No input provided")
    ELSE IF body.kind = "invalid_json" THEN Exit(1, "json", "absent", "Invalid JSON")
    ELSE IF ActionOf(body, "optimize") \in OptimizerActions
    THEN Exit(0, "json", "absent", "none")
    ELSE Exit(1, "json", "absent", "Unknown action")

\* pattern_analyzer.analyze_patterns and main
PatternMainExit(body) ==
    IF body.kind = "empty" THEN Exit(1, "json", "absent", "No input provided")
    ELSE IF body.kind = "invalid_json" THEN Exit(1, "json", "absent", "Invalid JSON")
    ELSE IF ActionOf(body, "cluster") \in PatternActions
    THEN Exit(0, "json", "true", "none")
    ELSE Exit(0, "json", "false", "Unknown action")

RECURSIVE SumCounts(_, _)
SumCounts(counts, ds) ==
    IF ds = {} THEN 0
    ELSE LET d == CHOOSE x \in ds : TRUE
         IN  counts[d] + SumCounts(counts, ds \ {d})

\* len(X): one sample per assignment.
Samples(counts) == SumCounts(counts, DOMAIN counts)

\* np.unique(y): the driver names that occur.
Classes(counts) == {d \in DOMAIN counts : counts[d] > 0}

\* train_test_split(X, y, test_size=0.2, stratify=y): n_test is
\* ceil(0.2 * n), n_train the rest; it raises ValueError when a class has
\* fewer than 2 members or when either part is smaller than the number of
\* classes.
NTest(n) == (n + 4) \div 5
NTrain(n) == n - NTest(n)

SplitRaises(counts) ==
    \/ \E d \in Classes(counts) : counts[d] < 2
    \/ NTrain(Samples(counts)) < Cardinality(Classes(counts))
    \/ NTest(Samples(counts)) < Cardinality(Classes(counts))

\* OwnershipClassifier.fit: what the call returns, or the exception it raises.
Fit(counts) ==
    IF Samples(counts) < 10 THEN "False"
    ELSE IF Cardinality(Classes(counts)) < 2 THEN "False"
    ELSE IF SplitRaises(counts) THEN "ValueError"
    ELSE "True"

\* xgboost_ownership.main; json.load(sys.stdin) is not guarded, and load()
\* succeeds when the model files are on disk.
OwnershipMainExit(body, model_on_disk) ==
    IF body.kind # "json" THEN Traceback
    ELSE LET action == ActionOf(body, "train")
         IN  IF action = "train"
             THEN (CASE Fit(body.training) = "True" -> Exit(0, "json", "true", "none")
                     [] Fit(body.training) = "False" ->
                            Exit(0, "json", "false", "Training failed")
                     [] OTHER -> Traceback)
             ELSE IF action \in {"predict", "get_distribution"}
             THEN (IF model_on_disk THEN Exit(0, "json", "absent", "none")
                   ELSE Exit(0, "json", "absent", "Model not found"))
             ELSE IF action = "get_driver_pattern"
             THEN (IF "driverName" \notin body.given
                   THEN Exit(0, "json", "absent", "driverName is required")
                   ELSE IF model_on_disk THEN Exit(0, "json", "absent", "none")
                   ELSE Exit(0, "json", "absent", "Model not found"))
             ELSE Exit(1, "json", "absent", "Unknown action")

InitMain ==
    /\ \E p \in Programs : \E b \in Bodies(p) : \E m \in BOOLEAN :
           invocation = [program |-> p, body |-> b, model_on_disk |-> m]
    /\ exit = NoExit
    /\ MainAlone

OptimizerMain ==
    /\ invocation.program = "schedule_optimizer"
    /\ exit = NoExit
    /\ exit' = OptimizerMainExit(invocation.body)
    /\ UNCHANGED <<invocation, exceptMain>>

PatternMain ==
    /\ invocation.program = "pattern_analyzer"
    /\ exit = NoExit
    /\ exit' = PatternMainExit(invocation.body)
    /\ UNCHANGED <<invocation, exceptMain>>

OwnershipMain ==
    /\ invocation.program = "xgboost_ownership"
    /\ exit = NoExit
    /\ exit' = OwnershipMainExit(invocation.body, invocation.model_on_disk)
    /\ UNCHANGED <<invocation, exceptMain>>

NextMain == OptimizerMain \/ PatternMain \/ OwnershipMain

SpecMain == InitMain /\ [][NextMain]_vars

Exited == exit # NoExit

\* A training set that cannot be trained on: fewer than 10 records, fewer
\* than 2 drivers, or a driver with a single record, which no split can put
\* into both the train and the test group.
Insufficient(counts) ==
    \/ Samples(counts) < 10
    \/ Cardinality({d \in DOMAIN counts : counts[d] > 0}) < 2
    \/ \E d \in DOMAIN counts : counts[d] = 1

TrainRun ==
    /\ invocation.program = "xgboost_ownership"
    /\ invocation.body.kind = "json"
    /\ invocation.body.action \in {"train", NoAction}

\* C18: an ownership train run on an insufficient training set exits with
\* status 0 after printing a response whose success field is false.
C18_InsufficientTrainingHandled ==
    (Exited /\ TrainRun /\ Insufficient(invocation.body.training)) =>
        /\ exit.status = 0
        /\ exit.stdout = "json"
        /\ exit.success = "false"

\* A body that is JSON was parsed.
Parsed == invocation.body.kind = "json"

UnknownAction ==
    /\ Parsed
    /\ invocation.body.action = BogusAction

\* C19: a run exits non-zero only when its body could not be parsed; a parsed
\* body with an unknown action gets a response with success false and an
\* error message, and exit status 0, from each of the three scripts.
C19_NonZeroOnlyUnparsed ==
    Exited =>
        /\ exit.status # 0 => ~Parsed
        /\ UnknownAction =>
              (exit.status = 0 /\ exit.success = "false" /\ exit.error # "none")

----------------------------------------------------------------------------
(* Properties of the optimizer's response: what a solved unit leaves.      *)

AssignedBlocks == {a.blockId : a \in result.assignments}

\* C27: the blocks of every solved unit (a contract type's partition in
\* optimize, the whole request in optimize_with_scores) are either all
\* assigned or all unassigned.
C27_AllOrNothing ==
    Done => \A i \in DOMAIN result.log :
                \/ UnitBlocks(result.log[i].unit) \subseteq AssignedBlocks
                \/ UnitBlocks(result.log[i].unit) \subseteq result.unassigned

\* C27 witness: a unit of two blocks was solved and decoded.
C27_Witness ==
    /\ Done
    /\ \E i \in DOMAIN result.log :
          /\ result.log[i].status \in Success
          /\ Cardinality(UnitBlocks(result.log[i].unit)) >= 2
          /\ UnitBlocks(result.log[i].unit) \subseteq AssignedBlocks

\* The solve of contract type ct, as the log shows it.
SolveOf(ct) == {i \in DOMAIN result.log : result.log[i].unit = ct}

\* C28: in optimize at minDays 3 or 4 without driverPreferences, a partition
\* with more eligible drivers than blocks has no decodable solve and all its
\* blocks are unassigned; in optimize_with_scores more drivers than blocks
\* never yields INFEASIBLE.
C28_MoreDriversThanBlocks ==
    Done =>
        /\ (request.action = "optimize" /\ request.minDays \in {3, 4}) =>
              \A ct \in {"solo1", "solo2", "team"} :
                  (UnitBlocks(ct) # {}
                   /\ Cardinality(HistoryDrivers(ct)) > Cardinality(UnitBlocks(ct))) =>
                      /\ UnitBlocks(ct) \subseteq result.unassigned
                      /\ \A i \in SolveOf(ct) : result.log[i].status \notin Success
        /\ (request.action = "optimize_with_scores"
            /\ DOMAIN request.blocks # {}
            /\ Len(request.drivers) > Len(request.blocks)) =>
              result.stats.solverStatus # "INFEASIBLE"

\* C28 witness: at minDays 3 a partition of two eligible drivers and one
\* block was solved and found infeasible.
C28_Witness ==
    /\ Done
    /\ request.action = "optimize"
    /\ request.minDays = 3
    /\ \E ct \in {"solo1", "solo2", "team"} :
          /\ Cardinality(UnitBlocks(ct)) = 1
          /\ Cardinality(HistoryDrivers(ct)) = 2
          /\ \E i \in SolveOf(ct) : result.log[i].status = "INFEASIBLE"

\* C29: an optimize request without driverHistories gets no assignment and
\* no solve, and every block of the three contract types is unassigned,
\* whatever is on record for its drivers.
C29_NoHistoriesNoAssignments ==
    (Done /\ request.action = "optimize" /\ request.driverHistories = "omitted") =>
        /\ result.assignments = {}
        /\ result.log = <<>>
        /\ \A ct \in {"solo1", "solo2", "team"} : UnitBlocks(ct) \subseteq result.unassigned

\* C29 witness: driverHistories was omitted for a driver with assignments on
\* record and a block of its contract type, which ended unassigned.
C29_Witness ==
    /\ Done
    /\ request.action = "optimize"
    /\ request.driverHistories = "omitted"
    /\ \E d \in DOMAIN request.drivers : \E b \in result.unassigned :
          /\ request.drivers[d].history >= 1
          /\ NormType(request.drivers[d].contractType) = NormType(request.blocks[b].contractType)

----------------------------------------------------------------------------
(* Properties of optimize with driverPreferences: the bounds of a driver.  *)

\* The blocks a driver was given.
BlocksOf(d) == {a \in result.assignments : a.driverId = d}

\* The number of distinct service dates of a partition.
UnitDates(ct) == Cardinality({request.blocks[b].serviceDate : b \in UnitBlocks(ct)})

\* The bounds of driver d in the partition of ct as the request states them:
\* the override where given, otherwise the default band.
StatedMin(d, ct) ==
    IF request.driverPreferences[d].minDays # NoPref
    THEN request.driverPreferences[d].minDays
    ELSE DefaultDriverMin(request.minDays, Cardinality(UnitBlocks(ct)),
                          Cardinality(HistoryDrivers(ct)))

StatedMax(d, ct) ==
    IF request.driverPreferences[d].maxDays # NoPref
    THEN request.driverPreferences[d].maxDays
    ELSE DefaultDriverMax(request.minDays, Cardinality(UnitBlocks(ct)),
                          Cardinality(HistoryDrivers(ct)), UnitDates(ct))

\* The stated bounds clamped: 0 <= min <= max <= number of distinct dates.
EffectiveMin(d, ct) == Max(0, Min(StatedMin(d, ct), UnitDates(ct)))
EffectiveMax(d, ct) == Max(EffectiveMin(d, ct), Min(StatedMax(d, ct), UnitDates(ct)))

\* C26: in every optimize partition that was decoded, the number of blocks of
\* each driver of the partition lies within the driver's effective bounds,
\* and these satisfy 0 <= min <= max <= number of distinct dates.
C26_WithinEffectiveBounds ==
    (Done /\ request.action = "optimize") =>
        \A i \in DOMAIN result.log :
            result.log[i].status \in Success =>
                \A d \in HistoryDrivers(result.log[i].unit) :
                    LET ct == result.log[i].unit
                    IN  /\ 0 <= EffectiveMin(d, ct)
                        /\ EffectiveMin(d, ct) <= EffectiveMax(d, ct)
                        /\ EffectiveMax(d, ct) <= UnitDates(ct)
                        /\ Cardinality(BlocksOf(d)) >= EffectiveMin(d, ct)
                        /\ Cardinality(BlocksOf(d)) <= EffectiveMax(d, ct)

\* C26 witness: of two drivers, the one whose minDays override exceeds the
\* number of dates was given a block on each of the two dates.
C26_Witness ==
    /\ Done
    /\ Len(request.drivers) = 2
    /\ \E d \in DOMAIN request.drivers :
          /\ request.driverPreferences[d].minDays = 3
          /\ Cardinality(BlocksOf(d)) = 2

----------------------------------------------------------------------------
(* Properties of the driver statistics: frequencies and malformed dates.   *)

\* extract_features, feature 3: weekday_counts.get(day_of_week, 0) / total_days
FreqThisDay(st, day_of_week) ==
    IF st.total_days > 0 THEN <<st.weekday_counts[day_of_week], st.total_days>>
    ELSE <<0, 1>>

\* C24: the weekday frequencies of a driver lie in [0, 1] and, when the
\* driver has a dated record, sum to 1, also when records share a date.
C24_WeekdayFrequencies ==
    (Computed /\ stats.by = "availability") =>
        /\ \A d \in 0..6 : /\ FreqThisDay(stats, d)[1] >= 0
                           /\ FreqThisDay(stats, d)[1] <= FreqThisDay(stats, d)[2]
        /\ stats.total_days > 0 =>
              SeqSum([i \in 1..7 |-> FreqThisDay(stats, i - 1)[1]]) = stats.total_days

\* What a stage returns for history h.
StageResult(by, h) ==
    CASE by = "availability" -> {AvailabilityStats(h)}
      [] by = "training" -> TrainingData(h)
      [] OTHER -> {DetectIntervalPattern(h)}

\* C25: no stage raises on a history with malformed dates, and each returns
\* what it returns for the history without the malformed records.
C25_MalformedDatesSkipped ==
    (Returned /\ stats.by \in {"availability", "training", "interval"}) =>
        /\ stats.by \in {"training", "interval"} => ~stats.raised
        /\ \E r \in StageResult(stats.by, Clean(history)) : stats = r @@ [by |-> stats.by]

\* C30: the statistics a ranker call returns for a history are those computed
\* from that history, whatever was asked of the ranker before.
C30_CacheCoherent ==
    (Returned /\ stats.by = "ranker_training" /\ ~stats.raised) =>
        stats = RankerStats(HistoryBefore(history, stats.before))
                    @@ [by |-> "ranker_training", raised |-> FALSE, before |-> stats.before]

----------------------------------------------------------------------------
(* The scorers that fill the ScoreMatrix: the cluster/affinity scorer      *)
(* (python/pattern_analyzer.py, predict_fit_scores) and the learned-model  *)
(* scorer (python/availability_forecaster.py, predict and                  *)
(* predict_for_blocks).  Scores are counted in thousandths, the precision  *)
(* both scorers round to.                                                  *)

MaxSlotCount == 3
ManySlotCount == 22

BaseScore == 200
DayBonus == 200
PrimaryTimeBonus == 350
PreferredTimeBonus == 150
HistoryBonusCap == 250
RollingBonusTop == 250
RollingBonusStep == 100
MaxRollingDistance == 2
DefaultScore == 300
One == 1000

\* 0.08 * np.log1p(n) in thousandths, rounded down, for the slot counts of the
\* model: 1..7 and ManySlotCount, the first count the cap of 0.25 cuts.
Log1pBonus(n) ==
    IF n >= ManySlotCount THEN 250 + (n - ManySlotCount)
    ELSE <<55, 87, 110, 128, 143, 155, 166>>[n]

SlotCounts == 0..MaxSlotCount \cup {ManySlotCount}

\* profile["preferredDays"], lower-case day names.
PreferredDaysOptions == {{}, {"sunday"}}
\* profile["preferredTimes"], most frequent first.
PreferredTimesOptions == {<<>>, <<"16:30">>, <<"16:30", "17:30">>}
BlockTimes == {"16:30", "17:30", "18:30"}

\* profile["rollingPattern"] together with the distance in days from
\* lastWorkDate to the block's date.  intervalDays 0 stands for a missing
\* interval; confidence is in thousandths.
NoRolling ==
    [hasRollingPattern |-> FALSE, intervalDays |-> 0, confidence |-> 0,
     days_since_last |-> 0]
RollingOptions ==
    {NoRolling} \cup
    [hasRollingPattern : {TRUE}, intervalDays : {0, 3}, confidence : {0, 500, One},
     days_since_last : {0, 3, 4, 11, 12}]

Abs(x) == IF x < 0 THEN -x ELSE x

\* x.get('contractType', 'solo1').lower()
FitContractType(ct) == NormType(ct)

\* The first preferred time, when there is one.
PrimaryTime(p) == IF p.preferredTimes = <<>> THEN "" ELSE p.preferredTimes[1]

InPreferredTimes(p) ==
    \E i \in 1..Len(p.preferredTimes) : p.preferredTimes[i] = p.block_time

HistoryBonus(p) ==
    IF p.history_count > 0 THEN Min(HistoryBonusCap, Log1pBonus(p.history_count)) ELSE 0

\* The smallest distance of days_since_last to the next three predicted dates.
BestDistance(r) ==
    Min(Abs(r.days_since_last - r.intervalDays),
        Min(Abs(r.days_since_last - 2 * r.intervalDays),
            Abs(r.days_since_last - 3 * r.intervalDays)))

RollingBonus(p) ==
    LET r == p.rolling
    IN  IF /\ r.hasRollingPattern
           /\ r.intervalDays # 0
           /\ r.days_since_last > 0
           /\ BestDistance(r) <= MaxRollingDistance
        THEN Max(0, ((RollingBonusTop - RollingBonusStep * BestDistance(r)) * r.confidence)
                        \div One)
        ELSE 0

\* What the bonuses add to the base score of a pair.
Bonuses(p) ==
    (IF Lower(p.block_day) \in p.preferredDays THEN DayBonus ELSE 0)
    + (IF PrimaryTime(p) # "" /\ p.block_time = PrimaryTime(p) THEN PrimaryTimeBonus
       ELSE IF InPreferredTimes(p) THEN PreferredTimeBonus
       ELSE 0)
    + HistoryBonus(p)
    + RollingBonus(p)

FitScoreMismatchBase(p) == Min(One, BaseScore +
    (IF FitContractType(p.driver_ct) # FitContractType(p.block_ct) THEN 0 ELSE Bonuses(p)))

FitScoreUncapped(p) ==
    IF FitContractType(p.driver_ct) # FitContractType(p.block_ct) THEN 0
    ELSE BaseScore + Bonuses(p)

\* scores[(driver_id, block_id)] of predict_fit_scores.
FitScore(p) ==
    IF FitContractType(p.driver_ct) # FitContractType(p.block_ct) THEN 0
    ELSE Min(One, BaseScore + Bonuses(p))

\* The raw value the forecaster's model predicts for a driver and a date, in
\* thousandths: any real number, or NaN.
RawPredictions == {NaN, -500, 0, 412, One, 1500}

\* prob = float(v) if not pd.isna(v) else 0.3; max(0.0, min(1.0, prob))
Probability(v) == Max(0, Min(One, IF v = NaN THEN DefaultScore ELSE v))

\* scores[(driver_id, block_id)] of predict_for_blocks: the prediction for the
\* block's date, or the default when the date is missing from the predictions.
BlockScore(p) == IF p.predicted THEN Probability(p.pred_value) ELSE DefaultScore

FitPairs ==
    [scorer : {"kmeans"}, driver_ct : RawTypes, block_ct : RawTypes,
     block_day : DayNames, block_time : BlockTimes,
     preferredDays : PreferredDaysOptions, preferredTimes : PreferredTimesOptions,
     history_count : SlotCounts, rolling : RollingOptions]

ForecastPairs ==
    [scorer : {"xgboost"}, predicted : BOOLEAN, pred_value : RawPredictions]

InitScores ==
    /\ ScoreAlone
    /\ pair \in FitPairs \cup ForecastPairs
    /\ score = NoScore

PredictFitScores ==
    /\ pair.scorer = "kmeans"
    /\ score = NoScore
    /\ score' = FitScore(pair)
    /\ UNCHANGED <<pair, exceptScore>>

PredictForBlocks ==
    /\ pair.scorer = "xgboost"
    /\ score = NoScore
    /\ score' = BlockScore(pair)
    /\ UNCHANGED <<pair, exceptScore>>

NextScores == PredictFitScores \/ PredictForBlocks

SpecScores == InitScores /\ [][NextScores]_vars

Scored == score # NoScore

AllBonuses(p) ==
    /\ Lower(p.block_day) \in p.preferredDays
    /\ p.preferredTimes # <<>> /\ p.block_time = p.preferredTimes[1]
    /\ p.history_count > 0
    /\ p.rolling.hasRollingPattern /\ p.rolling.intervalDays # 0
    /\ p.rolling.days_since_last = p.rolling.intervalDays
    /\ p.rolling.confidence = One

\* C21: the cluster/affinity scorer gives a pair whose contract types differ
\* exactly 0, whatever bonuses its profile would earn, and a pair whose
\* contract types match at least the base score of 0.2; so the score is 0
\* exactly when the contract types differ.
C21_ZeroIffMismatch ==
    (Scored /\ pair.scorer = "kmeans") =>
        LET mismatch == NormType(pair.driver_ct) # NormType(pair.block_ct)
        IN  /\ mismatch => score = 0
            /\ ~mismatch => score >= BaseScore
            /\ (score = 0) <=> mismatch

C21_Witness ==
    /\ Scored /\ pair.scorer = "kmeans"
    /\ pair.driver_ct = "solo1" /\ pair.block_ct = "Solo2"
    /\ AllBonuses(pair)
    /\ score = 0

\* C22: every score either scorer writes into the ScoreMatrix lies in [0, 1],
\* also when the day, primary time, slot history and rolling pattern bonuses
\* all apply to the same pair.
C22_ScoresInUnitInterval ==
    Scored => (0 <= score /\ score <= One)

C22_Witness ==
    /\ Scored /\ pair.scorer = "kmeans"
    /\ pair.driver_ct = pair.block_ct
    /\ AllBonuses(pair)
    /\ pair.history_count = ManySlotCount
    /\ score = One

----------------------------------------------------------------------------
(* The driver-centric view of the ownership table                          *)
(* (xgboost_ownership.py, get_driver_pattern): a history over several      *)
(* slots of the same weekday is ingested and a driver's typical work       *)
(* pattern is asked for.  The fields of a slot key hold no '|', so         *)
(* slot_key.split('|') gives back the four fields the key was made of.     *)

MaxPatternRecords == 3
MIN_TOTAL_PER_DAY == 2
DefaultTypicalDays == 6

\* (soloType, tractorId) of the slots the history is drawn on.
PatternSlots ==
    {<<"solo1", "Tractor_1">>, <<"solo1", "Tractor_2">>, <<"solo2", "Tractor_1">>}

PatternSlotKeys ==
    {make_slot_key(s[1], s[2], get_canonical_time(s[1], s[2]), d) :
        s \in PatternSlots, d \in DaysOfWeek}

PatternRecs ==
    {[driverName |-> n, soloType |-> s[1], tractorId |-> s[2],
      dayOfWeek |-> d, serviceDate |-> 1] :
        n \in {"Driver A", "Driver B"}, s \in PatternSlots, d \in DaysOfWeek}

PatternHistories == UNION {[1..n -> PatternRecs] : n \in 0..MaxPatternRecords}

\* owners[driver_name], as a count: len(assignments), 0 when the driver is
\* not among the owners of the slot.
OwnerCount(ownership, driver_name) ==
    SumOver({i \in DOMAIN ownership : ownership[i].driver = driver_name},
            Counts(ownership))

LargestOf(S) == CHOOSE x \in S : \A y \in S : y <= x

\* Mutant of DayTotal: the largest count of a single slot of the weekday.
DayTotalPerSlot(so, driver_name, day_of_week) ==
    LargestOf({OwnerCount(so[k], driver_name) :
                  k \in {j \in DOMAIN so : j[4] = day_of_week}})

\* day_totals[day_of_week]: the sum over all slots of the weekday.
DayTotal(so, driver_name, day_of_week) ==
    LET keys == {k \in DOMAIN so : k[4] = day_of_week}
    IN  SumOver(keys, [k \in keys |-> OwnerCount(so[k], driver_name)])

get_driver_pattern(so, driver_name) ==
    LET day_counts ==
            {d \in DaysOfWeek : DayTotal(so, driver_name, d) >= MIN_TOTAL_PER_DAY}
    IN  IF day_counts = {}
        THEN [typical_days |-> DefaultTypicalDays, day_list |-> {},
              day_counts |-> <<>>]
        ELSE [typical_days |-> Cardinality(day_counts), day_list |-> day_counts,
              day_counts |-> [d \in day_counts |-> DayTotal(so, driver_name, d)]]

InitPattern ==
    /\ records \in PatternHistories
    /\ slot_ownership = [k \in PatternSlotKeys |-> <<>>]
    /\ is_fitted = FALSE
    /\ runs = 0
    /\ now = RecentWeeks + 1
    /\ answer = NoAnswer
    /\ OwnershipAlone

GetDriverPattern ==
    /\ \E driver_name \in DriverNames :
       LET r == get_driver_pattern(slot_ownership, driver_name)
       IN  answer' = [op |-> "get_driver_pattern", driver |-> driver_name,
                      detail |-> r, runs |-> runs]
    /\ UNCHANGED <<records, slot_ownership, is_fitted, runs, now,
                   exceptOwnership>>

NextPattern == BuildTrainingData \/ GetDriverPattern

SpecPattern == InitPattern /\ [][NextPattern]_vars

\* The records of a driver on a weekday, in any slot.
RecordsOn(driver_name, day_of_week) ==
    {i \in DOMAIN records :
        /\ records[i].driverName = driver_name
        /\ records[i].dayOfWeek = day_of_week}

SlotsOn(driver_name, day_of_week) ==
    {<<records[i].soloType, records[i].tractorId>> :
        i \in RecordsOn(driver_name, day_of_week)}

\* C23: the typical work pattern of a driver is exactly the set of weekdays
\* on which the assignments ingested for the driver, summed over all slots
\* of the weekday, number at least 2: three slots of a weekday with one
\* assignment each put the weekday in, a single assignment leaves it out.
C23_TotalPerWeekday ==
    answer.op = "get_driver_pattern" =>
        answer.detail.day_list =
            {d \in DaysOfWeek :
                answer.runs * Cardinality(RecordsOn(answer.driver, d)) >= 2}

C23_Witness ==
    /\ answer.op = "get_driver_pattern"
    /\ answer.runs = 1
    /\ \E d \in DaysOfWeek :
        /\ Cardinality(RecordsOn(answer.driver, d)) = 3
        /\ Cardinality(SlotsOn(answer.driver, d)) = 3
        /\ d \in answer.detail.day_list

C23_SingleLeftOut ==
    /\ answer.op = "get_driver_pattern"
    /\ answer.runs = 1
    /\ \E d, e \in DaysOfWeek :
        /\ Cardinality(RecordsOn(answer.driver, d)) = 1
        /\ d \notin answer.detail.day_list
        /\ e \in answer.detail.day_list

====
